---- MODULE Spec2Model ----
(***************************************************************************)
(* KeelCast: the RSS ingestion pipeline (rss/parser and the CreatePodcast  *)
(* subscriber) as a state machine.                                         *)
(*                                                                         *)
(* JavaScript values are tagged records, so that values of different types *)
(* can be compared.  A string is a sequence of units: a URL is a sequence  *)
(* of tokens (scheme, host, name, extension, ...), a duration is a         *)
(* sequence of characters.  String operations (toLowerCase, includes,      *)
(* split, Number, parseInt, new URL) are computed on these sequences.      *)
(***************************************************************************)
EXTENDS Integers, Sequences, FiniteSets, TLC

VARIABLES
    encLike,      \* argument of the extractFromEnclosure call under check
    encResult,    \* its outcome, Pending before the call
    pc,           \* position of the add-podcast action / CreatePodcast subscriber
    event,        \* event.target.data: rssUrl, id, createdById
    rawFeed,      \* the document the parser returns for rssUrl
    i,            \* fetchEpisodes: index of the next feed item (1-based)
    episodes,     \* fetchEpisodes: the episodes collected so far
    source,       \* history: the index of the feed item each episode came from
    processedAt,  \* history: the clock reading when each feed item was processed
    clock,        \* the wall clock, read by new Date()
    error,        \* the exception the subscriber ended with, Null if none
    feedMetadata, \* the result of fetchFeedMetadata
    store,        \* the database: the podcast row, its episodes, its subscriptions
    before,       \* history: the database when the subscriber started
    feedUrl,      \* the feedUrl field of the add-podcast form
    net,          \* the environment: how the feed's server, the parser's
                  \* download and the database answer
    requests,     \* history: the outgoing calls made so far, in order
    cursor,       \* the pagination cursor under check: the pair encoded, its
                  \* encoding and what decoding it gives
    library,      \* UnlistenedEpisodes: the episode, podcast_subscription and
                  \* listened_episode tables the query reads
    listing,      \* UnlistenedEpisodes: the last call, its inputs and its response
    walk,         \* history: the responses of the walk through the pages under way
    listenedTable,\* the listened_episode table: the rows in order of insertion,
                  \* and whether the schema makes (episode, listener) unique
    upserts,      \* the UpsertListenedEpisode calls made so far: who made each,
                  \* its inputs, how far it has run, what it read and returned
    hook,         \* useListenedEpisode: its state and whether it is mounted
    nowMs,        \* Date.now(), in milliseconds
    list,         \* EpisodeList: its state (episodes, loading, error, cursor,
                  \* hasNextPage, hydrated)
    rendered,     \* EpisodeList: the state of the last render, which the
                  \* callbacks on the page have captured
    refs,         \* EpisodeList: abortControllerRef, episodeIdsRef, the
                  \* controllers aborted so far, whether it is mounted
    fetches,      \* EpisodeList: the unlistenedEpisodes requests made so far
    callback,     \* the auth callback: the query of the request, what the
                  \* sign-on answers, and the response of the loader
    tokenStore    \* a HybridTokenStore, its environment (window, the cookie
                  \* jar, the request) and, as history, the last set and get

extractorVars == <<encLike, encResult>>
pipelineVars == <<pc, event, rawFeed, i, episodes, source, processedAt, clock, error,
                  feedMetadata, store, before>>
networkVars == <<feedUrl, net, requests>>
cursorVars == <<cursor>>
pagingVars == <<library, listing, walk>>
listenVars == <<listenedTable, upserts, hook, nowMs>>
listVars == <<list, rendered, refs, fetches>>
authVars == <<callback, tokenStore>>
clientVars == <<pagingVars, listenVars, listVars, authVars>>
vars == <<encLike, encResult, pc, event, rawFeed, i, episodes, source, processedAt, clock,
          error, feedMetadata, store, before, feedUrl, net, requests, cursor,
          library, listing, walk, listenedTable, upserts, hook, nowMs,
          list, rendered, refs, fetches, callback, tokenStore>>

---------------------------------------------------------------------------
(* JavaScript values *)

Undef == [t |-> "undefined"]
Null == [t |-> "null"]
NaN == [t |-> "NaN"]
Str(s) == [t |-> "string", s |-> s]
Num(n) == [t |-> "number", n |-> n]
Arr(a) == [t |-> "array", a |-> a]
\* an exception thrown out of a call: the error's class and its message
Throw(name, message) == [t |-> "throw", name |-> name, message |-> message]
\* url.toLowerCase is not a function
TypeError == Throw("TypeError", <<"url.toLowerCase", " is not a function">>)
\* the call has not been made yet
Pending == [t |-> "pending"]

IsStr(v) == v.t = "string"
IsThrow(v) == v.t = "throw"

\* JavaScript truthiness: undefined, null, NaN, 0 and "" are falsy
Truthy(v) ==
    CASE v.t = "undefined" -> FALSE
      [] v.t = "null" -> FALSE
      [] v.t = "NaN" -> FALSE
      [] v.t = "string" -> Len(v.s) > 0
      [] v.t = "number" -> v.n # 0
      [] OTHER -> TRUE

\* a || b
Or(a, b) == IF Truthy(a) THEN a ELSE b

---------------------------------------------------------------------------
(* URL text *)

\* String.prototype.toLowerCase, unit by unit
LowerUnit(u) ==
    CASE u = ".MP3" -> ".mp3"
      [] u = ".M4A" -> ".m4a"
      [] u = "AUDIO/MPEG" -> "audio/mpeg"
      [] OTHER -> u

toLowerCase(s) == [k \in 1..Len(s) |-> LowerUnit(s[k])]

\* String.prototype.includes for a needle that is one unit
includes(s, needle) == \E k \in 1..Len(s) : s[k] = needle

Schemes == {"http://", "https://"}

\* new URL(s) does not throw: s is an absolute URL, a scheme followed by
\* a host
IsAbsoluteUrl(s) == Len(s) >= 2 /\ s[1] \in Schemes

U_mp3 == <<"https://", "host/", "ep1", ".mp3">>
U_MP3 == <<"https://", "host/", "ep2", ".MP3">>
U_m4a == <<"https://", "host/", "ep3", ".m4a">>
U_ogg == <<"http://", "host/", "ep4", ".ogg">>
U_html == <<"https://", "host/", "page", ".html">>
U_plain == <<"https://", "host/", "stream">>
U_mime == <<"https://", "host/", "get", "?type=", "audio/mpeg">>
U_mp4mime == <<"https://", "host/", "get", "?type=", "audio/mp4">>
U_relmp3 == <<"ep1", ".mp3">>
U_relhtml == <<"page", ".html">>

Urls == {U_mp3, U_MP3, U_m4a, U_ogg, U_html, U_plain, U_mime, U_mp4mime,
         U_relmp3, U_relhtml, <<>>}

T_audio == Str(<<"audio/mpeg">>)
T_AUDIO == Str(<<"AUDIO/MPEG">>)
T_html == Str(<<"text/html">>)

\* the substring "audio" occurs in a MIME unit
UnitHasAudio(u) == u \in {"audio/mpeg", "audio/mp3", "audio/mp4", "audio/wav",
                          "audio/ogg", "audio/aac"}

---------------------------------------------------------------------------
(* Enclosure-like objects: the properties the extractor reads, by path *)

UrlPaths == <<"url", "$.url", "href", "link", "src", "attributes.url",
              "attributes.href", "attributes.link", "attributes.src">>
TypePaths == <<"type", "$.type", "attributes.type">>
EncPaths == {UrlPaths[k] : k \in 1..Len(UrlPaths)}
                \cup {TypePaths[k] : k \in 1..Len(TypePaths)}

Obj(f) == [t |-> "object", f |-> f]
EmptyObj == [p \in EncPaths |-> Undef]

\* an object with value u at path up and value ty at path tp
EncObj(up, u, tp, ty) == Obj([[EmptyObj EXCEPT ![up] = u] EXCEPT ![tp] = ty])

\* enc?.path
Get(enc, path) == IF enc.t = "object" THEN enc.f[path] ELSE Undef

isMp3Url(url) ==
    LET lowerUrl == toLowerCase(url)
    IN \/ includes(lowerUrl, ".mp3")
       \/ includes(lowerUrl, "audio/mpeg")
       \/ includes(lowerUrl, "audio/mp3")

isAudioUrl(url) ==
    LET lowerUrl == toLowerCase(url)
    IN \/ includes(lowerUrl, ".mp3")
       \/ includes(lowerUrl, ".m4a")
       \/ includes(lowerUrl, ".wav")
       \/ includes(lowerUrl, ".ogg")
       \/ includes(lowerUrl, ".aac")
       \/ includes(lowerUrl, "audio/mpeg")
       \/ includes(lowerUrl, "audio/mp3")
       \/ includes(lowerUrl, "audio/mp4")
       \/ includes(lowerUrl, "audio/wav")
       \/ includes(lowerUrl, "audio/ogg")
       \/ includes(lowerUrl, "audio/aac")

isAudioType(enc) ==
    LET type == Or(Get(enc, "type"), Or(Get(enc, "$.type"), Get(enc, "attributes.type")))
    IN IsStr(type) /\ \E k \in 1..Len(type.s) : UnitHasAudio(LowerUnit(type.s[k]))

\* the first key of possibleUrlKeys whose value under prefix is a
\* non-empty string, Null if none
FirstStringKey(enc, prefix) ==
    LET keys == <<"url", "href", "link", "src">>
        hit(k) == LET v == Get(enc, prefix \o keys[k]) IN Truthy(v) /\ IsStr(v)
    IN IF \E k \in 1..4 : hit(k)
       THEN Get(enc, prefix \o keys[CHOOSE k \in 1..4 : hit(k) /\ \A j \in 1..(k-1) : ~hit(j)])
       ELSE Null

getUrlFromEnclosure(enc) ==
    LET FromKeys(own) == IF own # Null THEN own ELSE FirstStringKey(enc, "attributes.")
    IN IF IsStr(enc) THEN enc
       ELSE IF Truthy(Get(enc, "url")) THEN Get(enc, "url")
       ELSE IF Truthy(Get(enc, "$.url")) THEN Get(enc, "$.url")
       ELSE IF Truthy(Get(enc, "href")) THEN Get(enc, "href")
       ELSE IF Truthy(Get(enc, "link")) THEN Get(enc, "link")
       ELSE IF enc.t = "object" THEN FromKeys(FirstStringKey(enc, ""))
       ELSE Null

\* url.toLowerCase() of a truthy value that is not a string throws a
\* TypeError
Unreadable(url) == Truthy(url) /\ ~IsStr(url)

\* first pass over an array: the first element with MP3 evidence; the
\* scan stops with a TypeError at a truthy URL that is not a string
RECURSIVE FirstPass(_, _)
FirstPass(a, k) ==
    LET Test(url) ==
            IF Unreadable(url) THEN TypeError
            ELSE IF Truthy(url) /\ isMp3Url(url.s) THEN url
            ELSE FirstPass(a, k + 1)
    IN IF k > Len(a) THEN Null ELSE Test(getUrlFromEnclosure(a[k]))

\* a plausible bug: the second pass looks at the URL text only
RECURSIVE SecondPass_NoTypeCheck(_, _)
SecondPass_NoTypeCheck(a, k) ==
    LET Test(url) ==
            IF Unreadable(url) THEN TypeError
            ELSE IF Truthy(url) /\ isAudioUrl(url.s) THEN url
            ELSE SecondPass_NoTypeCheck(a, k + 1)
    IN IF k > Len(a) THEN Null ELSE Test(getUrlFromEnclosure(a[k]))

\* second pass: the first element with any audio evidence in its URL or
\* an audio type attribute
RECURSIVE SecondPass(_, _)
SecondPass(a, k) ==
    LET Test(url) ==
            IF Unreadable(url) THEN TypeError
            ELSE IF Truthy(url) /\ (isAudioUrl(url.s) \/ isAudioType(a[k])) THEN url
            ELSE SecondPass(a, k + 1)
    IN IF k > Len(a) THEN Null ELSE Test(getUrlFromEnclosure(a[k]))

\* a plausible bug: the MP3-first pass is left out
extractFromEnclosure_NoFirstPass(encLike_) ==
    LET Single(url) ==
            IF Unreadable(url) THEN TypeError
            ELSE IF Truthy(url) /\ (isMp3Url(url.s) \/ isAudioUrl(url.s)) THEN url
            ELSE Null
    IN IF encLike_.t = "array" THEN SecondPass(encLike_.a, 1)
       ELSE Single(getUrlFromEnclosure(encLike_))

\* a plausible bug (or fix): the type attribute is honoured for a lone
\* enclosure too
extractFromEnclosure_TypeOnLone(encLike_) ==
    LET Passes(first) == IF first # Null THEN first ELSE SecondPass(encLike_.a, 1)
        Single(url) ==
            IF Unreadable(url) THEN TypeError
            ELSE IF Truthy(url) /\ (isMp3Url(url.s) \/ isAudioUrl(url.s)
                                     \/ isAudioType(encLike_)) THEN url
            ELSE Null
    IN IF encLike_.t = "array" THEN Passes(FirstPass(encLike_.a, 1))
       ELSE Single(getUrlFromEnclosure(encLike_))

extractFromEnclosure(encLike_) ==
    LET Passes(first) == IF first # Null THEN first ELSE SecondPass(encLike_.a, 1)
        Single(url) ==
            IF Unreadable(url) THEN TypeError
            ELSE IF Truthy(url) /\ (isMp3Url(url.s) \/ isAudioUrl(url.s)) THEN url
            ELSE Null
    IN IF encLike_.t = "array" THEN Passes(FirstPass(encLike_.a, 1))
       ELSE Single(getUrlFromEnclosure(encLike_))

---------------------------------------------------------------------------
(* Feed items *)

\* item.enclosure ?? item.enclosures
Nullish(v) == v.t \in {"undefined", "null"}
Coalesce(a, b) == IF Nullish(a) THEN b ELSE a

\* item: the fields enclosure, enclosures, media:content and the content
\* of media:group
extractAudioUrlFromItem(item) ==
    LET Try(shape) == IF Truthy(shape) THEN extractFromEnclosure(shape) ELSE Null
        Found(url) == Truthy(url) \/ IsThrow(url)
        Pick(urlFromEnc, urlFromMedia, urlFromGroup) ==
            IF Found(urlFromEnc) THEN urlFromEnc
            ELSE IF Found(urlFromMedia) THEN urlFromMedia
            ELSE IF Found(urlFromGroup) THEN urlFromGroup
            ELSE Null
    IN Pick(Try(Coalesce(item.enclosure, item.enclosures)),
            Try(item.media_content),
            Try(item.media_group_content))

(* Durations: strings of characters *)

Digits == {"0", "1", "2", "3", "4", "5", "6", "7", "8", "9"}
DigitVal(c) ==
    CASE c = "0" -> 0 [] c = "1" -> 1 [] c = "2" -> 2 [] c = "3" -> 3
      [] c = "4" -> 4 [] c = "5" -> 5 [] c = "6" -> 6 [] c = "7" -> 7
      [] c = "8" -> 8 [] c = "9" -> 9

\* the decimal value of a string of digits, 0 for the empty string
RECURSIVE Decimal(_)
Decimal(s) ==
    IF Len(s) = 0 THEN 0
    ELSE 10 * Decimal(SubSeq(s, 1, Len(s) - 1)) + DigitVal(s[Len(s)])

\* Number(s): the empty string is 0, a string of digits its value,
\* anything else NaN
Number(s) == IF \A k \in 1..Len(s) : s[k] \in Digits THEN Num(Decimal(s)) ELSE NaN

\* parseInt(s, 10): the value of the longest prefix of digits, NaN when
\* there is none
parseInt(s) ==
    LET n == IF \E k \in 1..Len(s) : s[k] \notin Digits
             THEN (CHOOSE k \in 1..Len(s) : s[k] \notin Digits
                       /\ \A j \in 1..(k-1) : s[j] \in Digits) - 1
             ELSE Len(s)
    IN IF n = 0 THEN NaN ELSE Num(Decimal(SubSeq(s, 1, n)))

\* s.split(':')
RECURSIVE split(_)
split(s) ==
    IF \E k \in 1..Len(s) : s[k] = ":"
    THEN LET k == CHOOSE k \in 1..Len(s) : s[k] = ":" /\ \A j \in 1..(k-1) : s[j] # ":"
         IN <<SubSeq(s, 1, k - 1)>> \o split(SubSeq(s, k + 1, Len(s)))
    ELSE <<s>>

\* a * x + b * y + c * z on numbers, NaN when any of x, y, z is NaN
Combine(a, x, b, y, c, z) ==
    IF x = NaN \/ y = NaN \/ z = NaN THEN NaN
    ELSE Num(a * x.n + b * y.n + c * z.n)

\* a plausible bug: the hours are weighted like minutes
durationSecondsOf_HoursAsMinutes(item) ==
    LET FromParts(parts) ==
            IF Len(parts) = 3 THEN Combine(60, parts[1], 60, parts[2], 1, parts[3])
            ELSE IF Len(parts) = 2 THEN Combine(0, Num(0), 60, parts[1], 1, parts[2])
            ELSE Null
        Numbers(strs) == [k \in 1..Len(strs) |-> Number(strs[k])]
        FromInt(parsed) == IF parsed # NaN THEN parsed ELSE Null
        Parse(duration) ==
            IF ~Truthy(duration) THEN Null
            ELSE IF IsStr(duration)
            THEN IF includes(duration.s, ":")
                 THEN FromParts(Numbers(split(duration.s)))
                 ELSE FromInt(parseInt(duration.s))
            ELSE IF duration.t = "number" THEN duration
            ELSE Null
    IN Parse(Or(item.duration, item.itunes_duration))

\* the duration block of processValidatedItem
durationSecondsOf(item) ==
    LET FromParts(parts) ==
            IF Len(parts) = 3 THEN Combine(3600, parts[1], 60, parts[2], 1, parts[3])
            ELSE IF Len(parts) = 2 THEN Combine(0, Num(0), 60, parts[1], 1, parts[2])
            ELSE Null
        Numbers(strs) == [k \in 1..Len(strs) |-> Number(strs[k])]
        FromInt(parsed) == IF parsed # NaN THEN parsed ELSE Null
        Parse(duration) ==
            IF ~Truthy(duration) THEN Null
            ELSE IF IsStr(duration)
            THEN IF includes(duration.s, ":")
                 THEN FromParts(Numbers(split(duration.s)))
                 ELSE FromInt(parseInt(duration.s))
            ELSE IF duration.t = "number" THEN duration
            ELSE Null
    IN Parse(Or(item.duration, item.itunes_duration))

(* Dates *)

D_jan == <<"2024-01-01T00:00:00Z">>
D_feb == <<"2024-02-01T00:00:00Z">>
D_bad == <<"someday">>

\* new Date(s).getTime(): days since 2024-01-01 here, NaN for an
\* unparseable date
DateParse(s) ==
    CASE s = D_jan -> Num(0)
      [] s = D_feb -> Num(31)
      [] OTHER -> NaN

\* the date block of processValidatedItem; now is new Date()
publishedAtOf(item, now) ==
    IF Truthy(item.pubDate) /\ DateParse(item.pubDate.s) # NaN
    THEN DateParse(item.pubDate.s)
    ELSE Num(now)

---------------------------------------------------------------------------
(* Schema validation (zod): parse returns the value with unknown keys
   stripped, or throws a ZodError *)

ZodError(message) == Throw("ZodError", <<message>>)

IsUrlString(v) == IsStr(v) /\ IsAbsoluteUrl(v.s)
OptionalString(v) == v.t \in {"undefined", "string"}

\* RSSEnclosureSchema: the first option of { url, type, length } and
\* { $: { url, type, length } } that accepts e, with only these keys kept;
\* Null when neither accepts it
RSSEnclosureSchema(e) ==
    IF e.t = "object" /\ IsUrlString(e.f["url"]) /\ OptionalString(e.f["type"])
    THEN EncObj("url", e.f["url"], "type", e.f["type"])
    ELSE IF e.t = "object" /\ IsUrlString(e.f["$.url"]) /\ OptionalString(e.f["$.type"])
    THEN EncObj("$.url", e.f["$.url"], "$.type", e.f["$.type"])
    ELSE Null

\* the enclosure field: RSSEnclosureSchema, an array of it, or anything
EnclosureField(e) ==
    LET Union(single) ==
            IF single # Null THEN single
            ELSE IF e.t = "array" /\ \A k \in 1..Len(e.a) : RSSEnclosureSchema(e.a[k]) # Null
            THEN Arr([k \in 1..Len(e.a) |-> RSSEnclosureSchema(e.a[k])])
            ELSE e
    IN Union(RSSEnclosureSchema(e))

ItemIssue(item) ==
    IF ~(IsStr(item.title) /\ Len(item.title.s) >= 1) THEN "Episode title is required"
    ELSE IF ~IsUrlString(item.link) THEN "Episode link must be a valid URL"
    ELSE IF ~(OptionalString(item.contentSnippet) /\ OptionalString(item.content)
              /\ OptionalString(item.pubDate)) THEN "Expected string"
    ELSE IF ~(item.duration.t \in {"undefined", "string", "number"}
              /\ item.itunes_duration.t \in {"undefined", "string", "number"})
    THEN "Invalid input"
    ELSE IF Nullish(item.enclosure) THEN "Episode must have an enclosure (audio file)"
    ELSE IF ~(Truthy(item.contentSnippet) \/ Truthy(item.content))
    THEN "Episode must have either contentSnippet or content"
    ELSE "none"

\* RSSItemSchema.parse(item): enclosures, media:content and media:group
\* are not keys of the schema and are stripped
RSSItemSchema(item) ==
    LET Parse(issue) ==
            IF issue # "none" THEN ZodError(issue)
            ELSE [item EXCEPT !.enclosure = EnclosureField(@),
                              !.enclosures = Undef,
                              !.media_content = Undef,
                              !.media_group_content = Undef]
    IN Parse(ItemIssue(item))

\* a plausible bug: the extracted URL is not checked with new URL()
processValidatedItem_NoUrlCheck(item, now) ==
    LET Episode(audioUrl) ==
            IF IsThrow(audioUrl) THEN audioUrl
            ELSE IF ~Truthy(audioUrl)
            THEN Throw("Error", <<"No audio URL found", " for episode ">> \o item.title.s
                                 \o <<" - skipping invalid episode">>)
            ELSE [t |-> "episode",
                  podcastId |-> Str(<<>>),
                  title |-> item.title,
                  description |-> Or(item.contentSnippet, Or(item.content, Null)),
                  url |-> item.link,
                  audioUrl |-> audioUrl,
                  publishedAt |-> publishedAtOf(item, now),
                  durationSeconds |-> durationSecondsOf(item)]
    IN Episode(extractAudioUrlFromItem(item))

\* processValidatedItem(item): the episode, or the exception thrown
processValidatedItem(item, now) ==
    LET Episode(audioUrl) ==
            IF IsThrow(audioUrl) THEN audioUrl
            ELSE IF ~Truthy(audioUrl)
            THEN Throw("Error", <<"No audio URL found", " for episode ">> \o item.title.s
                                 \o <<" - skipping invalid episode">>)
            ELSE IF ~IsAbsoluteUrl(audioUrl.s)
            THEN Throw("Error", <<"Invalid audio URL", " for episode ">> \o item.title.s
                                 \o <<": ">> \o audioUrl.s)
            ELSE [t |-> "episode",
                  podcastId |-> Str(<<>>),
                  title |-> item.title,
                  description |-> Or(item.contentSnippet, Or(item.content, Null)),
                  url |-> item.link,
                  audioUrl |-> audioUrl,
                  publishedAt |-> publishedAtOf(item, now),
                  durationSeconds |-> durationSecondsOf(item)]
    IN Episode(extractAudioUrlFromItem(item))

\* the body of the try block of fetchEpisodes for one item
ProcessItem(item, now) ==
    LET Process(validatedItem) ==
            IF IsThrow(validatedItem) THEN validatedItem
            ELSE processValidatedItem(validatedItem, now)
    IN Process(RSSItemSchema(item))

\* a plausible bug: every exception is swallowed
Recoverable_All(err) == TRUE

\* a plausible bug: only schema errors are swallowed
Recoverable_ZodOnly(err) == err.name = "ZodError"

\* the catch block of fetchEpisodes: the exceptions after which the loop
\* continues
Recoverable(err) ==
    \/ err.name = "ZodError"
    \/ includes(err.message, "No audio URL found")
    \/ includes(err.message, "Invalid audio URL")
    \/ includes(err.message, "audio URL is not accessible")

---------------------------------------------------------------------------
(* Feed metadata *)

ImgPaths == {"href", "$.href"}
ImgObj(path, v) == Obj([q \in ImgPaths |-> IF q = path THEN v ELSE Undef])

\* a plausible bug: the standard image is tried before the iTunes image
extractImageUrl_StandardFirst(feed) ==
    LET itunesImage == feed.itunes_image
    IN IF Truthy(feed.image_url) THEN feed.image_url
       ELSE IF ~Truthy(itunesImage) THEN Null
       ELSE IF IsStr(itunesImage) THEN itunesImage
       ELSE IF itunesImage.t = "object" /\ Truthy(itunesImage.f["href"])
       THEN itunesImage.f["href"]
       ELSE IF itunesImage.t = "object" /\ Truthy(itunesImage.f["$.href"])
       THEN itunesImage.f["$.href"]
       ELSE Null

\* extractImageUrl(feed): the iTunes image, else the standard image, else null
extractImageUrl(feed) ==
    LET itunesImage == feed.itunes_image
        standard == IF Truthy(feed.image_url) THEN feed.image_url ELSE Null
    IN IF ~Truthy(itunesImage) THEN standard
       ELSE IF IsStr(itunesImage) THEN itunesImage
       ELSE IF itunesImage.t = "object" /\ Truthy(itunesImage.f["href"])
       THEN itunesImage.f["href"]
       ELSE IF itunesImage.t = "object" /\ Truthy(itunesImage.f["$.href"])
       THEN itunesImage.f["$.href"]
       ELSE standard

\* the itunes:image field of RSSFeedSchema: the first option that accepts
\* v, with only its keys kept; Null when none accepts it
ItunesImageField(v) ==
    IF v.t = "undefined" THEN v
    ELSE IF IsUrlString(v) THEN v
    ELSE IF v.t = "object" /\ IsUrlString(v.f["href"]) THEN ImgObj("href", v.f["href"])
    ELSE IF v.t = "object" /\ IsUrlString(v.f["$.href"]) THEN ImgObj("$.href", v.f["$.href"])
    ELSE Null

FeedIssue(feed) ==
    IF ~(OptionalString(feed.title) /\ OptionalString(feed.description)
         /\ OptionalString(feed.link) /\ OptionalString(feed.author))
    THEN "Expected string"
    ELSE IF ~(feed.categories.t = "undefined"
              \/ (feed.categories.t = "array"
                  /\ \A k \in 1..Len(feed.categories.a) : IsStr(feed.categories.a[k])))
    THEN "Expected array of strings"
    ELSE IF ~(feed.image_url.t = "undefined" \/ IsUrlString(feed.image_url))
    THEN "Invalid url"
    ELSE IF ItunesImageField(feed.itunes_image) = Null THEN "Invalid input"
    ELSE IF Len(feed.items) < 1 THEN "RSS feed must contain at least one episode"
    ELSE IF \E k \in 1..Len(feed.items) : ItemIssue(feed.items[k]) # "none"
    THEN "Invalid item"
    ELSE "none"

\* a plausible bug: the schema error is thrown on
fetchFeedMetadata_Strict(feed) ==
    LET Parse(issue) ==
            IF issue # "none" THEN ZodError(issue)
            ELSE [feed EXCEPT !.itunes_image = ItunesImageField(@),
                              !.items = [k \in 1..Len(feed.items) |->
                                            RSSItemSchema(feed.items[k])]]
    IN Parse(FeedIssue(feed))

\* fetchFeedMetadata: RSSFeedSchema.parse(rawFeed), or rawFeed itself when
\* the schema rejects it
fetchFeedMetadata(feed) ==
    LET Parse(issue) ==
            IF issue # "none" THEN feed
            ELSE [feed EXCEPT !.itunes_image = ItunesImageField(@),
                              !.items = [k \in 1..Len(feed.items) |->
                                            RSSItemSchema(feed.items[k])]]
    IN Parse(FeedIssue(feed))

---------------------------------------------------------------------------
(* Feed URL checks, the pre-validation fetch and the parser's download *)

\* the number of characters of a unit of a feed URL; a{n} is n letters
UnitLen(u) ==
    CASE u = "https://" -> 8
      [] u = "http://" -> 7
      [] u = "ftp://" -> 6
      [] u = "host/" -> 5
      [] u = "example.com/" -> 12
      [] u = "feed" -> 4
      [] u = ".xml" -> 4
      [] u = "a{1986}" -> 1986
      [] u = "a{1987}" -> 1987
      [] u = "a{1988}" -> 1988
      [] u = "a{1989}" -> 1989
      [] OTHER -> 1

\* String.prototype.length
RECURSIVE length(_)
length(s) == IF s = <<>> THEN 0 ELSE UnitLen(Head(s)) + length(Tail(s))

\* String.prototype.startsWith, for a prefix that is one unit
startsWith(s, prefix) == Len(s) >= 1 /\ s[1] = prefix

Whitespace == {" ", "\n"}

\* String.prototype.trim
RECURSIVE trim(_)
trim(s) ==
    IF s = <<>> THEN s
    ELSE IF Head(s) \in Whitespace THEN trim(Tail(s))
    ELSE IF s[Len(s)] \in Whitespace THEN trim(SubSeq(s, 1, Len(s) - 1))
    ELSE s

\* rssUrl.length > 2000
MaxUrlLength == 2000
\* AbortSignal.timeout(10000)
FetchTimeoutMs == 10000
\* setTimeout(..., 30000)
ParseTimeoutMs == 30000

\* a plausible bug: a URL of exactly 2000 characters is too long
UrlIssue_LengthInclusive(url) ==
    IF ~Truthy(url) THEN <<"RSS feed URL is required">>
    ELSE IF ~startsWith(url.s, "http://") /\ ~startsWith(url.s, "https://")
    THEN <<"Please enter a valid URL", " starting with http:// or https://">>
    ELSE IF length(url.s) >= MaxUrlLength THEN <<"URL is too long">>
    ELSE <<>>

\* the three checks made of a feed URL by validateRSSFeed and, in the same
\* words, by the add-podcast action: the message of the first that fails,
\* <<>> if none does
UrlIssue(url) ==
    IF ~Truthy(url) THEN <<"RSS feed URL is required">>
    ELSE IF ~startsWith(url.s, "http://") /\ ~startsWith(url.s, "https://")
    THEN <<"Please enter a valid URL", " starting with http:// or https://">>
    ELSE IF length(url.s) > MaxUrlLength THEN <<"URL is too long">>
    ELSE <<>>

\* await fetch(rssUrl, {signal: AbortSignal.timeout(10000)}): the response,
\* or the exception of a failed connection or of the timer
fetch(n) ==
    IF n.headersMs > FetchTimeoutMs
    THEN Throw("TimeoutError", <<"The operation was aborted due to timeout">>)
    ELSE IF n.kind = "error" THEN Throw("TypeError", <<"fetch", " failed">>)
    ELSE [t |-> "response", ok |-> n.ok, bodyMs |-> n.bodyMs, body |-> n.body]

\* await rssResponse.text(), under the same signal
text(rssResponse) ==
    IF rssResponse.bodyMs > FetchTimeoutMs
    THEN Throw("TimeoutError", <<"The operation was aborted due to timeout">>)
    ELSE Str(rssResponse.body)

\* the two checks made of the body by validateRSSFeed
BodyIssue(rssText) ==
    IF /\ ~startsWith(trim(rssText), "<?xml")
       /\ ~includes(rssText, "<rss")
       /\ ~includes(rssText, "<feed")
    THEN Throw("Error", <<"The URL does not appear to contain a valid RSS or Atom feed">>)
    ELSE IF ~includes(rssText, "<channel>") /\ ~includes(rssText, "<feed")
    THEN Throw("Error", <<"The RSS feed appears to be malformed",
                          " (missing channel or feed element)">>)
    ELSE Null

\* the catch block of validateRSSFeed
Rethrown(err) ==
    IF err.name = "TypeError" /\ includes(err.message, "fetch")
    THEN Throw("Error", <<"Unable to connect to the RSS feed URL", ". Please check the URL and try again.">>)
    ELSE IF err.name = "TimeoutError"
    THEN Throw("Error", <<"The RSS feed took too long to respond", ". Please try again later.">>)
    ELSE err

\* a plausible bug: the status of the response is not looked at
validateResponse_AnyStatus(n) ==
    LET Body(rssText) == IF IsThrow(rssText) THEN Rethrown(rssText) ELSE BodyIssue(rssText.s)
        Checked(rssResponse) ==
            IF IsThrow(rssResponse) THEN Rethrown(rssResponse)
            ELSE Body(text(rssResponse))
    IN Checked(fetch(n))

\* the try/catch of validateRSSFeed: Null, or the exception it ends with
validateResponse(n) ==
    LET Body(rssText) == IF IsThrow(rssText) THEN Rethrown(rssText) ELSE BodyIssue(rssText.s)
        Checked(rssResponse) ==
            IF IsThrow(rssResponse) THEN Rethrown(rssResponse)
            ELSE IF ~rssResponse.ok
            THEN Throw("Error", <<"Unable to fetch RSS feed", ". Server responded with ", "status">>)
            ELSE Body(text(rssResponse))
    IN Checked(fetch(n))

\* a plausible bug: the race has no timer
parseURL_NoTimer(p, feed) ==
    IF p.kind = "error" THEN Throw("Error", <<"Feed not recognized as RSS 1 or 2.">>)
    ELSE feed

\* await Promise.race([parser.parseURL(rssUrl), <30 s timer>]): the document,
\* or the exception of the parser or of the timer
parseURL(p, feed) ==
    IF p.ms > ParseTimeoutMs
    THEN Throw("Error", <<"RSS parsing timeout after 30 seconds">>)
    ELSE IF p.kind = "error" THEN Throw("Error", <<"Feed not recognized as RSS 1 or 2.">>)
    ELSE feed

---------------------------------------------------------------------------
(* The CreatePodcast subscriber *)

\* episodes.map(...) of CreatePodcast: podcastId is set to the event's id
episodesToInsertOf(eps, id) == [k \in 1..Len(eps) |-> [eps[k] EXCEPT !.podcastId = id]]

\* a plausible bug: every field is set, the absent ones too
SetIf_Always(row, key, v) == [row EXCEPT ![key] = v]

\* ...(v && { key: v }) of updateData
SetIf(row, key, v) == IF Truthy(v) THEN [row EXCEPT ![key] = v] ELSE row

RECURSIVE SelectNew(_, _, _, _)
\* the filter loop of the transaction: the episodes of eps from index k on
\* whose url is not stored for the podcast and whose audioUrl is truthy
SelectNew(eps, k, stored, id) ==
    IF k > Len(eps) THEN <<>>
    ELSE LET existing == \E j \in 1..Len(stored) :
                             stored[j].url = eps[k].url /\ stored[j].podcastId = id
         IN IF existing \/ ~Truthy(eps[k].audioUrl)
            THEN SelectNew(eps, k + 1, stored, id)
            ELSE <<eps[k]>> \o SelectNew(eps, k + 1, stored, id)

\* a query of the transaction rejected by the database
DbError == Throw("DatabaseError", <<"query failed">>)

\* the callback of db.transaction().execute(...): the exception it ends
\* with (Null if none) and the database as written through trx up to there;
\* fail names the query the database rejects, if any
Transaction(meta, eps, st, ev, fail) ==
    LET categories0 == IF meta.categories.t = "array" /\ Len(meta.categories.a) > 0
                       THEN meta.categories.a[1] ELSE Undef
        Row(imageUrl) ==
            SetIf(SetIf(SetIf(SetIf(SetIf(SetIf(st.podcast,
                "title", meta.title),
                "description", meta.description),
                "imageUrl", imageUrl),
                "url", meta.link),
                "author", meta.author),
                "category", categories0)
        Updated(imageUrl) == [st EXCEPT !.podcast = Row(imageUrl)]
        Inserted(imageUrl, newEpisodes) ==
            [Updated(imageUrl) EXCEPT !.episodes = st.episodes \o newEpisodes]
        Subscribed(imageUrl, newEpisodes) ==
            [Inserted(imageUrl, newEpisodes) EXCEPT
                !.subscriptions = Append(st.subscriptions,
                                         [podcastId |-> ev.id, subscriberId |-> ev.createdById])]
        Run(imageUrl, newEpisodes) ==
            IF ~(Truthy(meta.title) \/ Truthy(meta.description) \/ Truthy(imageUrl))
            THEN [error |-> Throw("Error", <<"Failed to fetch feed metadata">>), written |-> st]
            ELSE IF fail = "update"
            THEN [error |-> DbError, written |-> st]
            ELSE IF fail = "select" /\ Len(eps) > 0
            THEN [error |-> DbError, written |-> Updated(imageUrl)]
            ELSE IF \E k \in 1..Len(newEpisodes) : ~Truthy(newEpisodes[k].audioUrl)
            THEN [error |-> Throw("Error", <<"Cannot insert episodes with null audioUrl values">>),
                  written |-> Updated(imageUrl)]
            ELSE IF fail = "insert" /\ Len(newEpisodes) > 0
            THEN [error |-> DbError, written |-> Updated(imageUrl)]
            ELSE IF ~Truthy(ev.createdById)
            THEN [error |-> Null, written |-> Inserted(imageUrl, newEpisodes)]
            ELSE IF fail = "subscribe"
            THEN [error |-> DbError, written |-> Inserted(imageUrl, newEpisodes)]
            ELSE [error |-> Null, written |-> Subscribed(imageUrl, newEpisodes)]
    IN Run(extractImageUrl(meta), SelectNew(eps, 1, st.episodes, ev.id))

\* the action of the add-podcast route, after requireAuth: the three checks
\* of the form's feedUrl, then the createPodcast mutation
AddPodcastAction ==
    /\ pc = "action"
    /\ IF UrlIssue(feedUrl) # <<>>
       THEN /\ pc' = "rejected"
            /\ error' = [t |-> "actionData", error |-> UrlIssue(feedUrl)]
            /\ UNCHANGED <<event, requests>>
       ELSE /\ pc' = "start"
            /\ event' = [event EXCEPT !.rssUrl = feedUrl]
            /\ requests' = Append(requests, "createPodcast")
            /\ UNCHANGED error
    /\ UNCHANGED <<rawFeed, i, episodes, source, processedAt, clock, feedMetadata, store,
                   before, feedUrl, net, extractorVars, cursorVars, clientVars>>

\* the subscriber is called with the event of the created podcast
CreatePodcastStart ==
    /\ pc = "start"
    /\ pc' = IF ~Truthy(event.rssUrl) THEN "done" ELSE "validate"
    /\ UNCHANGED <<event, rawFeed, i, episodes, source, processedAt, clock, error,
                   feedMetadata, store, before, extractorVars, networkVars, cursorVars, clientVars>>

\* fetchEpisodes calls validateRSSFeed: the checks of the URL
ValidateRSSFeedUrl ==
    /\ pc = "validate"
    /\ IF UrlIssue(event.rssUrl) # <<>>
       THEN error' = Throw("Error", UrlIssue(event.rssUrl)) /\ pc' = "failed"
       ELSE pc' = "fetch" /\ UNCHANGED error
    /\ UNCHANGED <<event, rawFeed, i, episodes, source, processedAt, clock, feedMetadata,
                   store, before, extractorVars, networkVars, cursorVars, clientVars>>

\* validateRSSFeed: the request to the feed's server and the checks of its
\* response
ValidateRSSFeedFetch ==
    /\ pc = "fetch"
    /\ requests' = Append(requests, "fetch")
    /\ LET End(r) == IF IsThrow(r) THEN error' = r /\ pc' = "failed"
                     ELSE pc' = "parse" /\ UNCHANGED error
       IN End(validateResponse(net.fetch))
    /\ UNCHANGED <<event, rawFeed, i, episodes, source, processedAt, clock, feedMetadata,
                   store, before, feedUrl, net, extractorVars, cursorVars, clientVars>>

\* fetchEpisodes: the parser downloads and parses the feed, raced against
\* the 30 s timer
FetchEpisodesParse ==
    /\ pc = "parse"
    /\ requests' = Append(requests, "parseURL")
    /\ LET End(r) == IF IsThrow(r)
                     THEN error' = r /\ pc' = "failed" /\ UNCHANGED <<i, episodes>>
                     ELSE pc' = "items" /\ i' = 1 /\ episodes' = <<>> /\ UNCHANGED error
       IN End(parseURL(net.parse, rawFeed))
    /\ UNCHANGED <<event, rawFeed, source, processedAt, clock, feedMetadata, store, before,
                   feedUrl, net, extractorVars, cursorVars, clientVars>>

\* a plausible bug: the episode is put at the front of the list
FetchEpisodesItem_Unshift ==
    /\ pc = "items"
    /\ i <= Len(rawFeed.items)
    /\ LET Step(r) ==
               IF r.t = "episode"
               THEN /\ episodes' = <<r>> \o episodes
                    /\ source' = <<i>> \o source
                    /\ i' = i + 1
                    /\ UNCHANGED <<pc, error>>
               ELSE IF Recoverable(r)
               THEN i' = i + 1 /\ UNCHANGED <<pc, error, episodes, source>>
               ELSE error' = r /\ pc' = "failed" /\ UNCHANGED <<i, episodes, source>>
       IN Step(ProcessItem(rawFeed.items[i], clock))
    /\ processedAt' = Append(processedAt, clock)
    /\ clock' = clock + 1
    /\ UNCHANGED <<event, rawFeed, feedMetadata, store, before, extractorVars, networkVars, cursorVars, clientVars>>

\* one iteration of the for loop of fetchEpisodes
FetchEpisodesItem ==
    /\ pc = "items"
    /\ i <= Len(rawFeed.items)
    /\ LET Step(r) ==
               IF r.t = "episode"
               THEN /\ episodes' = Append(episodes, r)
                    /\ source' = Append(source, i)
                    /\ i' = i + 1
                    /\ UNCHANGED <<pc, error>>
               ELSE IF Recoverable(r)
               THEN i' = i + 1 /\ UNCHANGED <<pc, error, episodes, source>>
               ELSE error' = r /\ pc' = "failed" /\ UNCHANGED <<i, episodes, source>>
       IN Step(ProcessItem(rawFeed.items[i], clock))
    /\ processedAt' = Append(processedAt, clock)
    /\ clock' = clock + 1
    /\ UNCHANGED <<event, rawFeed, feedMetadata, store, before, extractorVars, networkVars, cursorVars, clientVars>>

\* return episodes
FetchEpisodesReturn ==
    /\ pc = "items"
    /\ i > Len(rawFeed.items)
    /\ pc' = "metadata"
    /\ UNCHANGED <<event, rawFeed, i, episodes, source, processedAt, clock, error, feedMetadata,
                   store, before, extractorVars, networkVars, cursorVars, clientVars>>

\* await fetchFeedMetadata(rssUrl): the parser downloads the feed again
FetchFeedMetadata ==
    /\ pc = "metadata"
    /\ requests' = Append(requests, "parseURL")
    /\ LET End(r) == IF IsThrow(r)
                     THEN error' = r /\ pc' = "failed" /\ UNCHANGED feedMetadata
                     ELSE feedMetadata' = r /\ pc' = "transaction" /\ UNCHANGED error
           Validate(doc) == IF IsThrow(doc) THEN doc ELSE fetchFeedMetadata(doc)
       IN End(Validate(parseURL(net.metaParse, rawFeed)))
    /\ UNCHANGED <<event, rawFeed, i, episodes, source, processedAt, clock, store, before,
                   feedUrl, net, extractorVars, cursorVars, clientVars>>

\* a plausible bug: the writes go to the database outside the transaction
RunTransaction_NoRollback ==
    /\ pc = "transaction"
    /\ LET End(r) ==
               /\ store' = r.written
               /\ IF r.error # Null THEN error' = r.error /\ pc' = "failed"
                  ELSE pc' = "done" /\ UNCHANGED error
       IN End(Transaction(feedMetadata, episodesToInsertOf(episodes, event.id), store, event,
                          net.db))
    /\ UNCHANGED <<event, rawFeed, i, episodes, source, processedAt, clock, feedMetadata, before,
                   extractorVars, networkVars, cursorVars, clientVars>>

\* await db.transaction().execute(...): a commit, or a rollback and the
\* exception rethrown
RunTransaction ==
    /\ pc = "transaction"
    /\ LET End(r) ==
               IF r.error # Null
               THEN error' = r.error /\ pc' = "failed" /\ UNCHANGED store
               ELSE store' = r.written /\ pc' = "done" /\ UNCHANGED error
       IN End(Transaction(feedMetadata, episodesToInsertOf(episodes, event.id), store, event,
                          net.db))
    /\ UNCHANGED <<event, rawFeed, i, episodes, source, processedAt, clock, feedMetadata, before,
                   extractorVars, networkVars, cursorVars, clientVars>>

---------------------------------------------------------------------------
(* The feeds ingested *)

\* the sequences over S of length at most n
RECURSIVE SeqsUpTo(_, _)
SeqsUpTo(S, n) ==
    IF n = 0 THEN {<<>>}
    ELSE LET shorter == SeqsUpTo(S, n - 1)
         IN shorter \cup {Append(q, x) : q \in shorter, x \in S}

\* most items of a feed
MaxItems == 2

L1 == Str(<<"https://", "host/", "e1">>)
L2 == Str(<<"https://", "host/", "e2">>)
L3 == Str(<<"https://", "host/", "e3">>)

Dur(s) == Str(s)

\* an item with a title, a link, a description and no audio
BlankItem ==
    [t |-> "item", title |-> Str(<<"Episode">>), link |-> L1,
     contentSnippet |-> Str(<<"notes">>), content |-> Undef,
     pubDate |-> Undef, duration |-> Undef, itunes_duration |-> Undef,
     enclosure |-> Undef, enclosures |-> Undef,
     media_content |-> Undef, media_group_content |-> Undef]

Enc(u) == EncObj("url", Str(u), "type", Undef)

\* a dated episode with an .mp3 enclosure
ItemMp3 ==
    [BlankItem EXCEPT !.title = Str(<<"One">>), !.pubDate = Str(D_jan),
                      !.duration = Dur(<<"0", "2", ":", "0", "3">>),
                      !.enclosure = EncObj("url", Str(U_mp3), "type", T_audio)]
\* an undated episode with an .m4a enclosure, described by content only
ItemM4a ==
    [BlankItem EXCEPT !.title = Str(<<"Two">>), !.link = L2,
                      !.contentSnippet = Undef, !.content = Str(<<"body">>),
                      !.pubDate = Str(D_bad),
                      !.itunes_duration = Dur(<<"9", "0">>),
                      !.enclosure = Enc(U_m4a)]
\* the only enclosure is a .html link with no type attribute
ItemHtml == [BlankItem EXCEPT !.title = Str(<<"Page">>), !.link = L3,
                              !.enclosure = Enc(U_html)]
\* a .html enclosure, the audio under media:content
ItemHtmlMedia ==
    [BlankItem EXCEPT !.title = Str(<<"Media">>), !.link = L3,
                      !.enclosure = Enc(U_html), !.media_content = Enc(U_mp3)]
\* a .html enclosure, the audio under media:group
ItemHtmlGroup ==
    [BlankItem EXCEPT !.title = Str(<<"Group">>), !.link = L2,
                      !.enclosure = Enc(U_html),
                      !.media_group_content = Arr(<<Enc(U_html), Enc(U_MP3)>>)]
\* no enclosure at all, the audio under media:content
ItemMediaOnly ==
    [BlankItem EXCEPT !.title = Str(<<"Bare">>), !.link = L2,
                      !.media_content = Enc(U_mp3)]
\* an empty title
ItemNoTitle == [BlankItem EXCEPT !.title = Str(<<>>), !.enclosure = Enc(U_mp3)]
\* the enclosure URL is relative
ItemRelative == [BlankItem EXCEPT !.title = Str(<<"Rel">>), !.link = L3,
                                  !.enclosure = Enc(U_relmp3)]
\* the enclosure URL is not a string
ItemOddUrl == [BlankItem EXCEPT !.title = Str(<<"Odd">>), !.link = L3,
                                !.enclosure = EncObj("url", Num(123), "type", T_audio)]
\* a duration with a non-numeric component
ItemOddDuration ==
    [BlankItem EXCEPT !.title = Str(<<"Long">>), !.link = L3,
                      !.duration = Dur(<<"1", ":", "g">>),
                      !.enclosure = EncObj("$.url", Str(U_MP3), "$.type", T_audio)]

FeedItems == {ItemMp3, ItemM4a, ItemHtml, ItemHtmlMedia, ItemHtmlGroup, ItemMediaOnly,
              ItemNoTitle, ItemRelative, ItemOddUrl, ItemOddDuration}

BlankFeed ==
    [t |-> "feed", title |-> Undef, description |-> Undef, link |-> Undef,
     author |-> Undef, categories |-> Undef, image_url |-> Undef, itunes_image |-> Undef, items |-> <<>>]

U_art == <<"https://", "host/", "art", ".png">>

Feeds ==
    {[BlankFeed EXCEPT !.title = title, !.itunes_image = image, !.items = items] :
        title \in {Undef, Str(<<"Show">>)},
        image \in {Undef, ImgObj("href", Str(U_art))},
        items \in SeqsUpTo(FeedItems, MaxItems)}

\* the first clock reading, later than every pubDate
T0 == 100

EmptyStore ==
    [podcast |-> [title |-> Null, description |-> Null, imageUrl |-> Null, url |-> Null,
                  author |-> Null, category |-> Null],
     episodes |-> <<>>,
     subscriptions |-> <<>>]

PodcastId == Str(<<"p1">>)
RssUrl == Str(<<"https://", "host/", "feed", ".xml">>)

\* neither the extractor nor the cursor is under check
\* no page has been asked for
PagingIdle == library = Undef /\ listing = Undef /\ walk = <<>>
\* no episode is open in the player
ListenIdle == listenedTable = Undef /\ upserts = <<>> /\ hook = Undef /\ nowMs = 0
\* no episode list is on the page
ListIdle == list = Undef /\ rendered = Undef /\ refs = Undef /\ fetches = <<>>
\* no sign-on is under way
AuthIdle == callback = Undef /\ tokenStore = Undef
ClientIdle == PagingIdle /\ ListenIdle /\ ListIdle /\ AuthIdle

ExtractorIdle == encLike = Undef /\ encResult = Undef /\ cursor = Undef /\ ClientIdle

\* a well-formed body
BodyRss == <<"<?xml", "<rss", "<channel>">>

\* the feed's server answers at once with a well-formed body, the parser's
\* downloads succeed, the database accepts every query
NetOk ==
    [fetch |-> [headersMs |-> 200, kind |-> "response", ok |-> TRUE, bodyMs |-> 300,
                body |-> BodyRss],
     parse |-> [ms |-> 400, kind |-> "feed"],
     metaParse |-> [ms |-> 400, kind |-> "feed"],
     db |-> "none"]

\* no form is involved, the environment answers well
NetworkIdle == feedUrl = Undef /\ net = NetOk /\ requests = <<>>

\* the subscriber starts
PipelineStart(ev, feed, st) ==
    /\ pc = "start"
    /\ event = ev
    /\ rawFeed = feed
    /\ i = 0
    /\ episodes = <<>>
    /\ source = <<>>
    /\ processedAt = <<>>
    /\ clock = T0
    /\ error = Null
    /\ feedMetadata = Null
    /\ store = st
    /\ before = st

Init ==
    /\ ExtractorIdle
    /\ NetworkIdle
    /\ \E feed \in Feeds, creator \in {Undef, Str(<<"u1">>)} :
          PipelineStart([rssUrl |-> RssUrl, id |-> PodcastId, createdById |-> creator],
                        feed, EmptyStore)

Next ==
    \/ CreatePodcastStart
    \/ ValidateRSSFeedUrl
    \/ ValidateRSSFeedFetch
    \/ FetchEpisodesParse
    \/ FetchEpisodesItem
    \/ FetchEpisodesReturn
    \/ FetchFeedMetadata
    \/ RunTransaction

Spec == Init /\ [][Next]_vars

---------------------------------------------------------------------------
(* Durations on their own: fetchEpisodes on feeds of one item, over the
   values of duration and itunes:duration *)

\* longest duration string drawn
MaxDurLen == 3

DurChars == {"1", "2", ":", "g"}

S_hms == <<"0", "1", ":", "0", "2", ":", "0", "3">>
S_ms == <<"0", "2", ":", "0", "3">>
S_digits == <<"2", "7", "3", "0">>
S_garbage == <<"g", "a", "r", "b", "a", "g", "e">>
S_four == <<"1", ":", "2", ":", "3", ":", "4">>

DurStrings == SeqsUpTo(DurChars, MaxDurLen) \cup {S_hms, S_ms, S_digits, S_garbage, S_four}

DurValues == {Undef, Num(0), Num(90)} \cup {Str(s) : s \in DurStrings}

DurationItems ==
    {[ItemMp3 EXCEPT !.duration = d, !.itunes_duration = it] :
        d \in DurValues, it \in {Undef, Str(S_ms), Num(45)}}
    \cup {[ItemMp3 EXCEPT !.duration = d, !.itunes_duration = it] :
        d \in {Undef, Str(<<>>), Num(0)}, it \in DurValues}

InitDuration ==
    /\ ExtractorIdle
    /\ NetworkIdle
    /\ \E item \in DurationItems :
          PipelineStart([rssUrl |-> RssUrl, id |-> PodcastId, createdById |-> Undef],
                        [BlankFeed EXCEPT !.items = <<item>>], EmptyStore)

NextDuration ==
    \/ CreatePodcastStart
    \/ ValidateRSSFeedUrl
    \/ ValidateRSSFeedFetch
    \/ FetchEpisodesParse
    \/ FetchEpisodesItem
    \/ FetchEpisodesReturn

SpecDuration == InitDuration /\ [][NextDuration]_vars

---------------------------------------------------------------------------
(* The extractor on its own: one call of extractFromEnclosure *)

\* longest enclosure array drawn
MaxEnclosures == 3

UrlValues == {Str(u) : u \in Urls} \cup {Undef, Num(123)}
TypeValues == {Undef, T_audio, T_AUDIO, T_html}

\* a lone enclosure: a URL given as a string, an object with one URL
\* property and one type property, or an object with two URL properties
LoneCandidates ==
    {Str(u) : u \in Urls}
    \cup {EncObj(UrlPaths[p], u, TypePaths[q], ty) :
             p \in 1..Len(UrlPaths), u \in UrlValues,
             q \in 1..Len(TypePaths), ty \in TypeValues}
    \cup {Obj([[EmptyObj EXCEPT ![UrlPaths[p]] = Str(u)] EXCEPT ![UrlPaths[q]] = Str(w)]) :
             p \in 1..Len(UrlPaths), q \in 1..Len(UrlPaths),
             u \in {U_mp3, U_html}, w \in {U_mp3, U_html}}

\* the elements of the arrays drawn
ArrayElems ==
    {EncObj("url", u, "type", Undef) :
        u \in {Str(U_mp3), Str(U_MP3), Str(U_m4a), Str(U_html), Str(U_plain),
               Undef, Num(123)}}
    \cup {EncObj("url", u, "type", T_audio) :
        u \in {Str(U_html), Str(U_plain), Undef, Num(123)}}
    \cup {Str(U_mime)}

EncInputs == LoneCandidates \cup {Arr(a) : a \in SeqsUpTo(ArrayElems, MaxEnclosures)}

InitEnclosure ==
    /\ encLike \in EncInputs
    /\ encResult = Pending
    /\ pc = "idle"
    /\ event = Null
    /\ rawFeed = BlankFeed
    /\ i = 0
    /\ episodes = <<>>
    /\ source = <<>>
    /\ processedAt = <<>>
    /\ clock = T0
    /\ error = Null
    /\ feedMetadata = Null
    /\ store = EmptyStore
    /\ before = EmptyStore
    /\ NetworkIdle
    /\ cursor = Undef
    /\ ClientIdle

ExtractCall ==
    /\ encResult = Pending
    /\ encResult' = extractFromEnclosure(encLike)
    /\ UNCHANGED <<encLike, pipelineVars, networkVars, cursorVars, clientVars>>

NextEnclosure == ExtractCall

SpecEnclosure == InitEnclosure /\ [][NextEnclosure]_vars

---------------------------------------------------------------------------
(* The ingestion against the network: the add-podcast action or a created
   podcast's event, over feed URLs, answers of the feed's server, outcomes
   of the parser's downloads and of the database *)

\* longest body drawn, in units
MaxBodyLen == 2

U_len2000 == <<"https://", "host/", "a{1987}">>
U_len2001 == <<"https://", "host/", "a{1988}">>
U_http2000 == <<"http://", "host/", "a{1988}">>
U_http2001 == <<"http://", "host/", "a{1989}">>
U_noscheme == <<"example.com/", "feed", ".xml">>
U_ftp == <<"ftp://", "host/", "feed", ".xml">>

FormUrls ==
    {Null, Str(<<>>), RssUrl, Str(<<"http://", "host/", "feed", ".xml">>)}
    \cup {Str(u) : u \in {U_len2000, U_len2001, U_http2000, U_http2001, U_noscheme, U_ftp}}

BodyUnits == {" ", "<?xml", "<rss", "<feed", "<channel>", "text"}
Bodies == SeqsUpTo(BodyUnits, MaxBodyLen)

FetchAnswers ==
    [headersMs : {200, FetchTimeoutMs + 1}, kind : {"response", "error"}, ok : BOOLEAN,
     bodyMs : {300, FetchTimeoutMs + 1}, body : Bodies]

ParseAnswers == [ms : {400, ParseTimeoutMs + 1}, kind : {"feed", "error"}]

DbAnswers == {"none", "update", "select", "insert", "subscribe"}

FeedShow == [BlankFeed EXCEPT !.title = Str(<<"Show">>), !.items = <<ItemMp3>>]

NetworkFeeds ==
    {[BlankFeed EXCEPT !.title = title, !.items = items] :
        title \in {Undef, Str(<<"Show">>)},
        items \in {<<>>, <<ItemMp3>>, <<ItemMp3, ItemNoTitle>>}}

Creator == Str(<<"u1">>)

\* the state before the action or the subscriber runs
NetworkStart(entry, url, answers, feed) ==
    /\ pc = entry
    /\ feedUrl = IF entry = "action" THEN url ELSE Undef
    /\ event = [rssUrl |-> IF entry = "action" THEN Undef ELSE url,
                id |-> PodcastId, createdById |-> Creator]
    /\ net = answers
    /\ requests = <<>>
    /\ rawFeed = feed
    /\ i = 0
    /\ episodes = <<>>
    /\ source = <<>>
    /\ processedAt = <<>>
    /\ clock = T0
    /\ error = Null
    /\ feedMetadata = Null
    /\ store = EmptyStore
    /\ before = EmptyStore

InitNetwork ==
    /\ ExtractorIdle
    /\ \/ \E entry \in {"action", "start"}, url \in FormUrls :
             NetworkStart(entry, url, NetOk, FeedShow)
       \/ \E answer \in FetchAnswers :
             NetworkStart("start", RssUrl, [NetOk EXCEPT !.fetch = answer], FeedShow)
       \/ \E p, m \in ParseAnswers, d \in DbAnswers, feed \in NetworkFeeds :
             NetworkStart("start", RssUrl,
                          [NetOk EXCEPT !.parse = p, !.metaParse = m, !.db = d], feed)

NextNetwork ==
    \/ AddPodcastAction
    \/ CreatePodcastStart
    \/ ValidateRSSFeedUrl
    \/ ValidateRSSFeedFetch
    \/ FetchEpisodesParse
    \/ FetchEpisodesItem
    \/ FetchEpisodesReturn
    \/ FetchFeedMetadata
    \/ RunTransaction

SpecNetwork == InitNetwork /\ [][NextNetwork]_vars

---------------------------------------------------------------------------
(* The ingestion against the database: feeds with every shape of image and
   with repeated links, a database that already holds episodes, queries the
   database may reject *)

U_cover == <<"https://", "host/", "cover", ".png">>
U_logo == <<"https://", "host/", "logo", ".png">>

\* an episode with the link of ItemMp3 under another title
ItemRepeat ==
    [ItemMp3 EXCEPT !.title = Str(<<"One again">>), !.pubDate = Str(D_feb),
                    !.enclosure = Enc(U_MP3)]

PersistItems == {ItemMp3, ItemM4a, ItemRepeat}

\* the shapes of itunes:image
ItunesImages ==
    {Undef, Str(<<>>), Str(U_art), ImgObj("href", Str(U_art)), ImgObj("$.href", Str(U_art)),
     ImgObj("href", Undef),
     Obj([q \in ImgPaths |-> IF q = "href" THEN Str(U_art) ELSE Str(U_cover)]),
     Obj([q \in ImgPaths |-> IF q = "href" THEN Str(<<>>) ELSE Str(U_cover)])}

ImageFeeds ==
    {[BlankFeed EXCEPT !.title = title, !.itunes_image = im, !.image_url = std,
                       !.items = items] :
        title \in {Undef, Str(<<"Show">>)}, im \in ItunesImages,
        std \in {Undef, Str(U_logo)}, items \in {<<>>, <<ItemMp3>>}}

RepeatFeeds ==
    {[BlankFeed EXCEPT !.title = title, !.items = items] :
        title \in {Undef, Str(<<"Show">>)}, items \in SeqsUpTo(PersistItems, MaxItems)}

\* the row of an episode stored for podcast id
Row(item, id) == [ProcessItem(item, T0) EXCEPT !.podcastId = id]

OtherPodcastId == Str(<<"p2">>)

\* the databases the subscriber starts on: the podcast row as created, or
\* as an earlier run left it
Stores ==
    {[EmptyStore EXCEPT !.episodes = eps] :
        eps \in {<<>>, <<Row(ItemMp3, PodcastId)>>, <<Row(ItemM4a, OtherPodcastId)>>}}
        \cup {[EmptyStore EXCEPT !.podcast.title = Str(<<"Old">>),
                                 !.podcast.description = Str(<<"About">>),
                                 !.podcast.author = Str(<<"Ann">>)]}

InitPersist ==
    /\ ExtractorIdle
    /\ feedUrl = Undef
    /\ requests = <<>>
    /\ \/ /\ net = NetOk
          /\ \E feed \in ImageFeeds :
                PipelineStart([rssUrl |-> RssUrl, id |-> PodcastId, createdById |-> Creator],
                              feed, EmptyStore)
       \/ /\ net \in {[NetOk EXCEPT !.db = d] : d \in DbAnswers}
          /\ \E feed \in RepeatFeeds, st \in Stores, creator \in {Undef, Creator} :
                PipelineStart([rssUrl |-> RssUrl, id |-> PodcastId, createdById |-> creator],
                              feed, st)

NextPersist ==
    \/ CreatePodcastStart
    \/ ValidateRSSFeedUrl
    \/ ValidateRSSFeedFetch
    \/ FetchEpisodesParse
    \/ FetchEpisodesItem
    \/ FetchEpisodesReturn
    \/ FetchFeedMetadata
    \/ RunTransaction

SpecPersist == InitPersist /\ [][NextPersist]_vars

---------------------------------------------------------------------------
(* The transaction on its own: the callback of db.transaction().execute
   over the episode lists, the metadata and the databases it may be handed,
   episodes without an audio URL included *)

\* the episodes handed to the transaction
EpisodeInserts ==
    {ProcessItem(ItemMp3, T0), ProcessItem(ItemM4a, T0),
     [ProcessItem(ItemMp3, T0) EXCEPT !.audioUrl = Null],
     [ProcessItem(ItemM4a, T0) EXCEPT !.audioUrl = Str(<<>>)]}

InitTransaction ==
    /\ ExtractorIdle
    /\ feedUrl = Undef
    /\ requests = <<"fetch", "parseURL", "parseURL">>
    /\ net \in {[NetOk EXCEPT !.db = d] : d \in DbAnswers}
    /\ pc = "transaction"
    /\ event \in {[rssUrl |-> RssUrl, id |-> PodcastId, createdById |-> creator] :
                     creator \in {Undef, Creator}}
    /\ rawFeed \in {[BlankFeed EXCEPT !.title = title] : title \in {Undef, Str(<<"Show">>)}}
    /\ feedMetadata = rawFeed
    /\ i = 1
    /\ episodes \in SeqsUpTo(EpisodeInserts, MaxItems)
    /\ source = <<>>
    /\ processedAt = <<>>
    /\ clock = T0
    /\ error = Null
    /\ store \in Stores
    /\ before = store

NextTransaction == RunTransaction

SpecTransaction == InitTransaction /\ [][NextTransaction]_vars

---------------------------------------------------------------------------
(* The pagination cursor of UnlistenedEpisodes: JSON text, its UTF-8 bytes,
   their base64 digits.  A text is a sequence of characters, a base64 text
   a sequence of digits 0..63 with 64 for the padding "=" *)

\* longest id drawn
MaxIdLen == 2

\* the UTF-8 code of a one-byte character
Code(c) ==
    CASE c = "\"" -> 34 [] c = "," -> 44 [] c = "-" -> 45 [] c = ":" -> 58
      [] c = "A" -> 65 [] c = "\\" -> 92 [] c = "a" -> 97 [] c = "d" -> 100
      [] c = "i" -> 105 [] c = "l" -> 108 [] c = "n" -> 110 [] c = "p" -> 112
      [] c = "t" -> 116 [] c = "u" -> 117 [] c = "{" -> 123 [] c = "}" -> 125
      [] c \in Digits -> 48 + DigitVal(c)

Ascii == {"\"", ",", "-", ":", "A", "\\", "a", "d", "i", "l", "n", "p", "t", "u", "{", "}"}
             \cup Digits

\* Buffer.from(text): the UTF-8 bytes; e-acute takes two
RECURSIVE utf8Bytes(_)
utf8Bytes(chars) ==
    IF chars = <<>> THEN <<>>
    ELSE (IF Head(chars) = "e-acute" THEN <<195, 169>> ELSE <<Code(Head(chars))>>)
             \o utf8Bytes(Tail(chars))

\* buffer.toString(): the text of UTF-8 bytes, U+FFFD for a byte that
\* starts no character
RECURSIVE utf8Text(_)
utf8Text(bytes) ==
    IF bytes = <<>> THEN <<>>
    ELSE IF Len(bytes) >= 2 /\ bytes[1] = 195 /\ bytes[2] = 169
    THEN <<"e-acute">> \o utf8Text(SubSeq(bytes, 3, Len(bytes)))
    ELSE IF \E c \in Ascii : Code(c) = bytes[1]
    THEN <<CHOOSE c \in Ascii : Code(c) = bytes[1]>> \o utf8Text(Tail(bytes))
    ELSE <<"U+FFFD">> \o utf8Text(Tail(bytes))

\* buffer.toString('base64')
RECURSIVE base64(_)
base64(b) ==
    IF Len(b) = 0 THEN <<>>
    ELSE IF Len(b) = 1 THEN <<b[1] \div 4, (b[1] % 4) * 16, 64, 64>>
    ELSE IF Len(b) = 2
    THEN <<b[1] \div 4, (b[1] % 4) * 16 + b[2] \div 16, (b[2] % 16) * 4, 64>>
    ELSE <<b[1] \div 4, (b[1] % 4) * 16 + b[2] \div 16, (b[2] % 16) * 4 + b[3] \div 64,
           b[3] % 64>> \o base64(SubSeq(b, 4, Len(b)))

\* Buffer.from(text, 'base64')
RECURSIVE fromBase64(_)
fromBase64(c) ==
    IF Len(c) < 2 \/ c[1] = 64 \/ c[2] = 64 THEN <<>>
    ELSE IF Len(c) = 2 \/ c[3] = 64 THEN <<c[1] * 4 + c[2] \div 16>>
    ELSE IF Len(c) = 3 \/ c[4] = 64
    THEN <<c[1] * 4 + c[2] \div 16, (c[2] % 16) * 16 + c[3] \div 4>>
    ELSE <<c[1] * 4 + c[2] \div 16, (c[2] % 16) * 16 + c[3] \div 4, (c[3] % 4) * 64 + c[4]>>
             \o fromBase64(SubSeq(c, 5, Len(c)))

\* the decimal digits of a natural number
RECURSIVE digitsOf(_)
digitsOf(n) ==
    IF n < 10 THEN <<CHOOSE c \in Digits : DigitVal(c) = n>>
    ELSE Append(digitsOf(n \div 10), CHOOSE c \in Digits : DigitVal(c) = n % 10)

\* JSON.stringify of a number: NaN is written null
jsonNumber(v) ==
    IF v = NaN THEN <<"n", "u", "l", "l">>
    ELSE IF v.n < 0 THEN <<"-">> \o digitsOf(-v.n)
    ELSE digitsOf(v.n)

\* JSON.stringify of a string: quotes and backslashes are escaped
RECURSIVE jsonEscaped(_)
jsonEscaped(chars) ==
    IF chars = <<>> THEN <<>>
    ELSE (IF Head(chars) \in {"\"", "\\"} THEN <<"\\", Head(chars)>> ELSE <<Head(chars)>>)
             \o jsonEscaped(Tail(chars))

KeyPAt == <<"{", "\"", "p", "A", "t", "\"", ":">>
KeyId == <<",", "\"", "i", "d", "\"", ":", "\"">>

\* JSON.stringify({pAt, id})
stringify(pAt, id) ==
    KeyPAt \o jsonNumber(pAt) \o KeyId \o jsonEscaped(id.s) \o <<"\"", "}">>

\* the characters of a JSON string body up to its closing quote, unescaped,
\* and the position after that quote; 0 when the string does not end
RECURSIVE jsonString(_, _, _)
jsonString(chars, k, acc) ==
    IF k > Len(chars) THEN [s |-> acc, next |-> 0]
    ELSE IF chars[k] = "\"" THEN [s |-> acc, next |-> k + 1]
    ELSE IF chars[k] = "\\"
    THEN IF k + 1 <= Len(chars) /\ chars[k + 1] \in {"\"", "\\"}
         THEN jsonString(chars, k + 2, Append(acc, chars[k + 1]))
         ELSE [s |-> acc, next |-> 0]
    ELSE jsonString(chars, k + 1, Append(acc, chars[k]))

SyntaxError == Throw("SyntaxError", <<"Unexpected token">>)

\* JSON.parse of the text of an object {"pAt": number or null, "id": string}
parse(chars) ==
    LET comma == IF \E k \in 1..Len(chars) : chars[k] = ","
                 THEN CHOOSE k \in 1..Len(chars) :
                          chars[k] = "," /\ \A j \in 1..(k - 1) : chars[j] # ","
                 ELSE 0
        number == SubSeq(chars, Len(KeyPAt) + 1, comma - 1)
        pAt == IF number = <<"n", "u", "l", "l">> THEN Null
               ELSE IF Len(number) >= 1 /\ \A k \in 1..Len(number) : number[k] \in Digits
               THEN Num(Decimal(number))
               ELSE IF /\ Len(number) >= 2 /\ number[1] = "-"
                       /\ \A k \in 2..Len(number) : number[k] \in Digits
               THEN Num(-Decimal(Tail(number)))
               ELSE SyntaxError
        Object(body) ==
            IF body.next = 0 \/ SubSeq(chars, body.next, Len(chars)) # <<"}">>
            THEN SyntaxError
            ELSE [t |-> "object", pAt |-> pAt, id |-> Str(body.s)]
    IN IF comma = 0 \/ SubSeq(chars, 1, Len(KeyPAt)) # KeyPAt THEN SyntaxError
       ELSE IF IsThrow(pAt) THEN SyntaxError
       ELSE IF SubSeq(chars, comma, comma + Len(KeyId) - 1) # KeyId THEN SyntaxError
       ELSE Object(jsonString(chars, comma + Len(KeyId), <<>>))

\* publishedAt.getTime()
getTime(date) == date.time

\* a plausible bug: the cursor carries seconds
encodeCursor_Seconds(publishedAt, id) ==
    base64(utf8Bytes(stringify(Num(getTime(publishedAt).n \div 1000), id)))

encodeCursor(publishedAt, id) ==
    base64(utf8Bytes(stringify(getTime(publishedAt), id)))

\* decodeCursor: the parsed object, null when the text is not JSON
decodeCursor(c) ==
    LET Caught(decoded) == IF IsThrow(decoded) THEN Null ELSE decoded
    IN Caught(parse(utf8Text(fromBase64(c))))

\* new Date(ms)
Date(ms) == [t |-> "date", time |-> Num(ms)]

\* the publishedAt of a stored episode: a valid date, before or after 1970
Dates == {Date(0), Date(7), Date(1500), Date(86400000), Date(-1), Date(-120500)}

\* the characters of an id
IdChars == {"a", "7", "\"", "\\", "e-acute", ",", "}"}
Ids == {Str(q) : q \in SeqsUpTo(IdChars, MaxIdLen)}

InitCursor ==
    /\ cursor \in {[publishedAt |-> date, id |-> id, encoded |-> Undef, decoded |-> Pending] :
                      date \in Dates, id \in Ids}
    /\ encLike = Undef
    /\ encResult = Undef
    /\ ClientIdle
    /\ NetworkIdle
    /\ pc = "idle"
    /\ event = Null
    /\ rawFeed = BlankFeed
    /\ i = 0
    /\ episodes = <<>>
    /\ source = <<>>
    /\ processedAt = <<>>
    /\ clock = T0
    /\ error = Null
    /\ feedMetadata = Null
    /\ store = EmptyStore
    /\ before = EmptyStore

\* nextCursor = encodeCursor(lastEpisode.publishedAt, lastEpisode.id)
EncodeCursor ==
    /\ cursor.encoded = Undef
    /\ cursor' = [cursor EXCEPT !.encoded = Arr(encodeCursor(cursor.publishedAt, cursor.id))]
    /\ UNCHANGED <<extractorVars, pipelineVars, networkVars, clientVars>>

\* const cursor = decodeCursor(after), on the cursor handed out
DecodeCursor ==
    /\ cursor.encoded # Undef
    /\ cursor.decoded = Pending
    /\ cursor' = [cursor EXCEPT !.decoded = decodeCursor(cursor.encoded.a)]
    /\ UNCHANGED <<extractorVars, pipelineVars, networkVars, clientVars>>

NextCursor == EncodeCursor \/ DecodeCursor

SpecCursor == InitCursor /\ [][NextCursor]_vars

---------------------------------------------------------------------------
(* UnlistenedEpisodes: keyset pagination over (publishedAt DESC, id DESC) *)

\* comparison of two strings by their code units, as the database orders ids
RECURSIVE StrLess(_, _)
StrLess(x, y) ==
    IF y = <<>> THEN FALSE
    ELSE IF x = <<>> THEN TRUE
    ELSE IF Head(x) = Head(y) THEN StrLess(Tail(x), Tail(y))
    ELSE Code(Head(x)) < Code(Head(y))

\* a plausible bug: no upper limit on the page size
pageSizeOf_NoUpperClamp(first) ==
    IF Or(first, Num(20)).n > 1 THEN Or(first, Num(20)).n ELSE 1

\* Math.min(Math.max(first || 20, 1), 100)
pageSizeOf(first) ==
    LET Max(x, y) == IF x > y THEN x ELSE y
        Min(x, y) == IF x < y THEN x ELSE y
    IN Min(Max(Or(first, Num(20)).n, 1), 100)

\* the episodes of the podcasts the listener is subscribed to that the
\* listener has not listened to, of one podcast when podcastId is given
Matching(lib, identity, podcastId) ==
    {e \in lib.episode :
        /\ \E sub \in lib.podcast_subscription :
              sub.subscriberId = identity.id /\ sub.podcastId = e.podcastId
        /\ ~\E l \in lib.listened_episode :
              l.episodeId = e.id /\ l.listenerId = identity.id /\ l.listened
        /\ Truthy(podcastId) => e.podcastId = podcastId}

\* a plausible bug: the row at the cursor is let through again
Keyset_Inclusive(rows, after) ==
    IF after.t # "array" \/ after.a = <<>> \/ decodeCursor(after.a) = Null THEN rows
    ELSE {e \in rows :
             \/ e.publishedAt.time.n < decodeCursor(after.a).pAt.n
             \/ /\ e.publishedAt.time.n = decodeCursor(after.a).pAt.n
                /\ ~StrLess(decodeCursor(after.a).id.s, e.id.s)}

\* if (after) { const cursor = decodeCursor(after); if (cursor) ... }: the
\* rows strictly below the cursor
Keyset(rows, after) ==
    LET Below(c) ==
            LET cursorDate == IF c.pAt = Null THEN Date(0) ELSE Date(c.pAt.n)
            IN {e \in rows :
                   \/ e.publishedAt.time.n < cursorDate.time.n
                   \/ /\ e.publishedAt.time.n = cursorDate.time.n
                      /\ StrLess(e.id.s, c.id.s)}
        Where(c) == IF c = Null THEN rows ELSE Below(c)
    IN IF after.t # "array" \/ after.a = <<>> THEN rows
       ELSE Where(decodeCursor(after.a))

\* orderBy("episode.publishedAt", "desc").orderBy("episode.id", "desc")
RECURSIVE OrderDesc(_)
OrderDesc(rows) ==
    IF rows = {} THEN <<>>
    ELSE LET top == CHOOSE e \in rows : \A o \in rows \ {e} :
                        \/ o.publishedAt.time.n < e.publishedAt.time.n
                        \/ /\ o.publishedAt.time.n = e.publishedAt.time.n
                           /\ StrLess(o.id.s, e.id.s)
         IN <<top>> \o OrderDesc(rows \ {top})

\* .limit(limit)
Limit(results, limit) ==
    IF Len(results) > limit THEN SubSeq(results, 1, limit) ELSE results

\* a plausible bug: the cursor is made of the extra row fetched
Page_CursorOfExtraRow(results, pageSize) ==
    [episodes |-> IF Len(results) > pageSize THEN SubSeq(results, 1, pageSize) ELSE results,
     hasNextPage |-> Len(results) > pageSize,
     nextCursor |-> IF Len(results) > pageSize
                    THEN Arr(encodeCursor(results[Len(results)].publishedAt,
                                          results[Len(results)].id))
                    ELSE Null]

\* hasNextPage, the page and the next cursor, of the rows fetched
Page(results, pageSize) ==
    LET hasNextPage == Len(results) > pageSize
        eps == IF hasNextPage THEN SubSeq(results, 1, pageSize) ELSE results
    IN [episodes |-> eps,
        hasNextPage |-> hasNextPage,
        nextCursor |-> IF hasNextPage /\ Len(eps) > 0
                       THEN Arr(encodeCursor(eps[Len(eps)].publishedAt, eps[Len(eps)].id))
                       ELSE Null]

UnlistenedEpisodes(ctx, inputs, lib) ==
    IF ~ctx.isAuthenticated \/ ctx.identity = Null
    THEN [episodes |-> <<>>, hasNextPage |-> FALSE, nextCursor |-> Null]
    ELSE Page(Limit(OrderDesc(Keyset(Matching(lib, ctx.identity, inputs.podcastId),
                                     inputs.after)),
                    pageSizeOf(inputs.first) + 1),
              pageSizeOf(inputs.first))

\* the values of first drawn: absent, zero, negative, small, the maximum
\* and beyond
Firsts == {Undef, Num(0), Num(-3), Num(1), Num(2), Num(100), Num(101)}

P1 == Str(<<"p", "1">>)
P2 == Str(<<"p", "2">>)
Listener == [id |-> Str(<<"u", "1">>)]

EpisodeRow(ms, id, podcastId) ==
    [publishedAt |-> Date(ms), id |-> Str(id), podcastId |-> podcastId]

E_a == EpisodeRow(1500, <<"a">>, P1)
E_a7 == EpisodeRow(1500, <<"a", "7">>, P1)
E_7 == EpisodeRow(1500, <<"7">>, P1)
E_old == EpisodeRow(7, <<"a", "a">>, P1)
E_heard == EpisodeRow(86400000, <<"d">>, P1)
E_other == EpisodeRow(86400000, <<"7", "7">>, P2)

\* the tables drawn: the listener is subscribed to p1, and to p2 in the
\* last; the listener has listened to one episode and started another
Libraries ==
    {[episode |-> eps,
      podcast_subscription |-> {[subscriberId |-> Listener.id, podcastId |-> P1]} \cup subs,
      listened_episode |->
          {[episodeId |-> E_heard.id, listenerId |-> Listener.id, listened |-> TRUE],
           [episodeId |-> E_old.id, listenerId |-> Listener.id, listened |-> FALSE]}] :
        eps \in {{}, {E_a, E_heard, E_other}, {E_a, E_a7, E_7, E_heard},
                 {E_a, E_a7, E_7, E_old, E_other}},
        subs \in {{}}}
    \cup {[episode |-> {E_a, E_a7, E_old, E_other},
           podcast_subscription |-> {[subscriberId |-> Listener.id, podcastId |-> P1],
                                     [subscriberId |-> Listener.id, podcastId |-> P2]},
           listened_episode |-> {}]}

\* the requests come with the listener's session or with none
Contexts == {[isAuthenticated |-> TRUE, identity |-> Listener],
             [isAuthenticated |-> FALSE, identity |-> Null]}

\* the cursors a client may send: none, the one of the last response, one
\* made of any stored episode, and a text that is no cursor
Afters ==
    {Undef, Arr(<<1, 2>>)}
        \cup (IF listing # Undef /\ listing.response.nextCursor # Null
              THEN {listing.response.nextCursor} ELSE {})
        \cup {Arr(encodeCursor(e.publishedAt, e.id)) : e \in library.episode}

\* one call of UnlistenedEpisodes; the walk is the sequence of responses
\* of the calls made since one without a cursor, each with the nextCursor
\* of the one before
UnlistenedEpisodesCall ==
    /\ library # Undef
    /\ \E first \in Firsts, after \in Afters, podcastId \in {Undef, P1} :
          LET inputs == [podcastId |-> podcastId, first |-> first, after |-> after]
              Answer(response) ==
                  /\ listing' = [ctx |-> listing.ctx, inputs |-> inputs,
                                 pageSize |-> IF listing.ctx.isAuthenticated
                                              THEN Num(pageSizeOf(first)) ELSE Undef,
                                 response |-> response]
                  /\ walk' = IF after = Undef
                             THEN <<[podcastId |-> podcastId, response |-> response]>>
                             ELSE IF /\ walk # <<>>
                                     /\ after = walk[Len(walk)].response.nextCursor
                                     /\ podcastId = walk[1].podcastId
                             THEN Append(walk, [podcastId |-> podcastId,
                                                response |-> response])
                             ELSE <<>>
          IN Answer(UnlistenedEpisodes(listing.ctx, inputs, library))
    /\ UNCHANGED <<library, listenVars, listVars, authVars, extractorVars, pipelineVars,
                   networkVars, cursorVars>>

NoResponse == [episodes |-> <<>>, hasNextPage |-> FALSE, nextCursor |-> Null]

InitPaging ==
    /\ library \in Libraries
    /\ listing \in {[ctx |-> ctx, inputs |-> Undef, pageSize |-> Undef,
                        response |-> NoResponse] : ctx \in Contexts}
    /\ walk = <<>>
    /\ ListenIdle
    /\ ListIdle
    /\ AuthIdle
    /\ encLike = Undef
    /\ encResult = Undef
    /\ cursor = Undef
    /\ NetworkIdle
    /\ pc = "idle"
    /\ event = Null
    /\ rawFeed = BlankFeed
    /\ i = 0
    /\ episodes = <<>>
    /\ source = <<>>
    /\ processedAt = <<>>
    /\ clock = T0
    /\ error = Null
    /\ feedMetadata = Null
    /\ store = EmptyStore
    /\ before = EmptyStore

NextPaging == UnlistenedEpisodesCall

SpecPaging == InitPaging /\ [][NextPaging]_vars

---------------------------------------------------------------------------
(* UpsertListenedEpisode and the useListenedEpisode hook of the player *)

\* longest run of calls followed
MaxCalls == 3
\* most calls from elsewhere
MaxOthers == 1
\* longest time followed, in milliseconds
MaxElapsed == 5000
\* the throttle of updateProgress
ThrottleMs == 5000

Bool(b) == [t |-> "boolean", b |-> b]

Ep1 == Str(<<"e", "1">>)

\* the rows of the table for (episodeId, listenerId), by index
RowsOf(tbl, episodeId, listenerId) ==
    {k \in 1..Len(tbl.rows) :
        tbl.rows[k].episodeId = episodeId /\ tbl.rows[k].listenerId = listenerId}

\* a call arrives at the backend
NewCall(by, identity, inputs, captured) ==
    [by |-> by, identity |-> identity, inputs |-> inputs, stage |-> "select",
     existing |-> Undef, prior |-> Undef, result |-> Undef, now |-> captured]

\* UpsertListenedEpisode up to its first await: the identity check and the
\* select of the existing record
UpsertSelect ==
    \E k \in 1..Len(upserts) :
        /\ upserts[k].stage = "select"
        /\ upserts' = [upserts EXCEPT ![k] =
              IF upserts[k].identity = Null
              THEN [@ EXCEPT !.stage = "returned",
                             !.result = [error |-> <<"User must be authenticated">>]]
              ELSE LET found == RowsOf(listenedTable, @.inputs.episodeId, @.identity.id)
                   IN [@ EXCEPT !.stage = "write",
                                !.existing = IF found = {} THEN Undef
                                             ELSE listenedTable.rows[CHOOSE r \in found :
                                                      \A o \in found : r <= o]]]
        /\ UNCHANGED <<listenedTable, hook, nowMs,
                       pagingVars, listVars, authVars, extractorVars, pipelineVars, networkVars,
                   cursorVars>>

\* UpsertListenedEpisode after the select: the update of the record read,
\* or the insert of a new one; prior is the record as stored just before
UpsertWrite ==
    \E k \in 1..Len(upserts) :
        LET call == upserts[k]
            existing == call.existing
            updated == [existing EXCEPT
                           !.secondsListened = Coalesce(call.inputs.secondsListened,
                                                        existing.secondsListened),
                           !.listened = Coalesce(call.inputs.listened, existing.listened),
                           !.listenedAt = nowMs]
            created == [id |-> Len(listenedTable.rows) + 1,
                        episodeId |-> call.inputs.episodeId,
                        listenerId |-> call.identity.id,
                        listenedAt |-> nowMs,
                        secondsListened |-> Coalesce(call.inputs.secondsListened, Num(0)),
                        listened |-> Coalesce(call.inputs.listened, Bool(FALSE))]
        IN /\ call.stage = "write"
           /\ IF existing # Undef
              THEN /\ listenedTable' = [listenedTable EXCEPT !.rows[existing.id] = updated]
                   /\ upserts' = [upserts EXCEPT ![k] =
                         [@ EXCEPT !.stage = "returned",
                                   !.prior = listenedTable.rows[existing.id],
                                   !.result = [data |-> updated]]]
              ELSE IF /\ listenedTable.uniquePair
                      /\ RowsOf(listenedTable, created.episodeId, created.listenerId) # {}
              THEN /\ listenedTable' = listenedTable
                   /\ upserts' = [upserts EXCEPT ![k] =
                         [@ EXCEPT !.stage = "returned",
                                   !.result = [error |-> <<"duplicate key">>]]]
              ELSE /\ listenedTable' = [listenedTable EXCEPT !.rows = Append(@, created)]
                   /\ upserts' = [upserts EXCEPT ![k] =
                         [@ EXCEPT !.stage = "returned", !.result = [data |-> created]]]
           /\ UNCHANGED <<hook, nowMs,
                           pagingVars, listVars, authVars, extractorVars, pipelineVars, networkVars,
                   cursorVars>>

\* the request does not reach the backend: the client's call throws
UpsertLost ==
    \E k \in 1..Len(upserts) :
        /\ upserts[k].stage = "select"
        /\ upserts[k].by # "other"
        /\ upserts' = [upserts EXCEPT ![k] =
              [@ EXCEPT !.stage = "returned",
                        !.result = Throw("TypeError", <<"fetch", " failed">>)]]
        /\ UNCHANGED <<listenedTable, hook, nowMs,
                       pagingVars, listVars, authVars, extractorVars, pipelineVars, networkVars,
                   cursorVars>>

\* the effect of useListenedEpisode, up to its await
LoadListenedEpisode ==
    /\ hook.stage = "mounting"
    /\ Len(upserts) < MaxCalls
    /\ hook' = [hook EXCEPT !.stage = "mounted", !.isLoading = TRUE, !.error = Null]
    /\ upserts' = Append(upserts,
          NewCall("load", Listener,
                  [episodeId |-> Ep1, secondsListened |-> Num(0), listened |-> Bool(FALSE)],
                  nowMs))
    /\ UNCHANGED <<listenedTable, nowMs,
                   pagingVars, listVars, authVars, extractorVars, pipelineVars, networkVars,
                   cursorVars>>

\* the cleanup of the effect
Unmount ==
    /\ hook.stage = "mounted"
    /\ hook.mounted
    /\ hook' = [hook EXCEPT !.mounted = FALSE]
    /\ UNCHANGED <<listenedTable, upserts, nowMs,
                   pagingVars, listVars, authVars, extractorVars, pipelineVars, networkVars,
                   cursorVars>>

\* loadListenedEpisode after its await
LoadResponse ==
    \E k \in 1..Len(upserts) :
        LET result == upserts[k].result
        IN /\ upserts[k].by = "load"
           /\ upserts[k].stage = "returned"
           /\ upserts' = [upserts EXCEPT ![k].stage = "done"]
           /\ hook' =
                 IF IsThrow([t |-> "result"] @@ result)
                 THEN IF hook.mounted
                      THEN [hook EXCEPT !.error = result.message, !.isLoading = FALSE]
                      ELSE hook
                 ELSE LET loaded ==
                              IF "data" \in DOMAIN result
                              THEN [hook EXCEPT !.listenedEpisode =
                                       [id |-> result.data.id,
                                        secondsListened |-> result.data.secondsListened,
                                        listened |-> result.data.listened]]
                              ELSE hook
                      IN IF hook.mounted THEN [loaded EXCEPT !.isLoading = FALSE] ELSE loaded
           /\ UNCHANGED <<listenedTable, nowMs,
                       pagingVars, listVars, authVars, extractorVars, pipelineVars, networkVars,
                   cursorVars>>

\* updateProgress(secondsListened), called by the player's onTimeUpdate, up
\* to its await
UpdateProgress(secondsListened) ==
    /\ hook.stage = "mounted"
    /\ IF secondsListened <= 0 \/ hook.listenedEpisode = Null
       THEN UNCHANGED <<hook, upserts>>
       ELSE IF nowMs - hook.lastUpdateTime < ThrottleMs
       THEN /\ hook' = [hook EXCEPT
                           !.listenedEpisode.secondsListened = Num(secondsListened)]
            /\ UNCHANGED upserts
       ELSE /\ Len(upserts) < MaxCalls
            /\ upserts' = Append(upserts,
                  NewCall("progress", Listener,
                          [episodeId |-> Ep1, secondsListened |-> Num(secondsListened),
                           listened |-> Undef],
                          nowMs))
            /\ UNCHANGED hook
    /\ UNCHANGED <<listenedTable, nowMs,
                   pagingVars, listVars, authVars, extractorVars, pipelineVars, networkVars,
                   cursorVars>>

\* updateProgress after its await
ProgressResponse ==
    \E k \in 1..Len(upserts) :
        LET result == upserts[k].result
        IN /\ upserts[k].by = "progress"
           /\ upserts[k].stage = "returned"
           /\ upserts' = [upserts EXCEPT ![k].stage = "done"]
           /\ hook' =
                 IF IsThrow([t |-> "result"] @@ result)
                 THEN [hook EXCEPT !.error = result.message]
                 ELSE IF "data" \in DOMAIN result
                 THEN [hook EXCEPT
                          !.lastUpdateTime = upserts[k].now,
                          !.listenedEpisode =
                              IF @ = Null THEN Null
                              ELSE [@ EXCEPT !.secondsListened =
                                                 upserts[k].inputs.secondsListened]]
                 ELSE hook
           /\ UNCHANGED <<listenedTable, nowMs,
                       pagingVars, listVars, authVars, extractorVars, pipelineVars, networkVars,
                   cursorVars>>

\* markComplete, called by the player's onEnded, up to its await
MarkComplete ==
    /\ hook.stage = "mounted"
    /\ hook.listenedEpisode # Null
    /\ Len(upserts) < MaxCalls
    /\ upserts' = Append(upserts,
          NewCall("complete", Listener,
                  [episodeId |-> Ep1, secondsListened |-> Undef, listened |-> Bool(TRUE)],
                  nowMs))
    /\ UNCHANGED <<listenedTable, hook, nowMs,
                   pagingVars, listVars, authVars, extractorVars, pipelineVars, networkVars,
                   cursorVars>>

\* markComplete after its await
CompleteResponse ==
    \E k \in 1..Len(upserts) :
        LET result == upserts[k].result
        IN /\ upserts[k].by = "complete"
           /\ upserts[k].stage = "returned"
           /\ upserts' = [upserts EXCEPT ![k].stage = "done"]
           /\ hook' =
                 IF IsThrow([t |-> "result"] @@ result)
                 THEN [hook EXCEPT !.error = result.message]
                 ELSE IF "data" \in DOMAIN result /\ hook.listenedEpisode # Null
                 THEN [hook EXCEPT !.listenedEpisode.listened = Bool(TRUE)]
                 ELSE hook
           /\ UNCHANGED <<listenedTable, nowMs,
                       pagingVars, listVars, authVars, extractorVars, pipelineVars, networkVars,
                   cursorVars>>

\* a call of UpsertListenedEpisode from elsewhere: another tab or device of
\* the listener, or a request without a session
OtherUpsert ==
    /\ Len(upserts) < MaxCalls
    /\ Cardinality({k \in 1..Len(upserts) : upserts[k].by = "other"}) < MaxOthers
    /\ \E from \in {[identity |-> Listener, secondsListened |-> Num(5), listened |-> Undef],
                      [identity |-> Null, secondsListened |-> Num(5), listened |-> Undef]} :
          upserts' = Append(upserts,
              NewCall("other", from.identity,
                      [episodeId |-> Ep1, secondsListened |-> from.secondsListened,
                       listened |-> from.listened],
                      nowMs))
    /\ UNCHANGED <<listenedTable, hook, nowMs,
                   pagingVars, listVars, authVars, extractorVars, pipelineVars, networkVars,
                   cursorVars>>

\* time passes
Tick ==
    /\ nowMs + ThrottleMs <= 100000 + MaxElapsed
    /\ nowMs' = nowMs + ThrottleMs
    /\ UNCHANGED <<listenedTable, upserts, hook,
                   pagingVars, listVars, authVars, extractorVars, pipelineVars, networkVars,
                   cursorVars>>

\* the record of an episode listened to before: 42 seconds, completed
HeardBefore ==
    [id |-> 1, episodeId |-> Ep1, listenerId |-> Listener.id, listenedAt |-> 7,
     secondsListened |-> Num(42), listened |-> Bool(TRUE)]

InitListen ==
    /\ listenedTable \in {[rows |-> rows, uniquePair |-> u] :
                             rows \in {<<>>, <<HeardBefore>>}, u \in BOOLEAN}
    /\ upserts = <<>>
    /\ hook = [stage |-> "mounting", mounted |-> TRUE, listenedEpisode |-> Null,
               isLoading |-> TRUE, error |-> Null, lastUpdateTime |-> 0]
    /\ nowMs = 100000
    /\ PagingIdle
    /\ ListIdle
    /\ AuthIdle
    /\ encLike = Undef
    /\ encResult = Undef
    /\ cursor = Undef
    /\ NetworkIdle
    /\ pc = "idle"
    /\ event = Null
    /\ rawFeed = BlankFeed
    /\ i = 0
    /\ episodes = <<>>
    /\ source = <<>>
    /\ processedAt = <<>>
    /\ clock = T0
    /\ error = Null
    /\ feedMetadata = Null
    /\ store = EmptyStore
    /\ before = EmptyStore

NextListen ==
    \/ LoadListenedEpisode
    \/ Unmount
    \/ \E secondsListened \in {0, 8} : UpdateProgress(secondsListened)
    \/ MarkComplete
    \/ OtherUpsert
    \/ Tick
    \/ UpsertSelect
    \/ UpsertWrite
    \/ UpsertLost
    \/ LoadResponse
    \/ ProgressResponse
    \/ CompleteResponse

SpecListen == InitListen /\ [][NextListen]_vars

---------------------------------------------------------------------------
(* EpisodeList: the infinite-scroll list of the unlistened episodes *)

\* most requests followed
MaxRequests == 4
\* the pageSize of the list
ListPageSize == 2

\* the unlistened episodes on the backend, newest first; the cursor of a
\* page is the position of its last episode
Catalogue == <<"e1", "e2", "e3">>

\* what unlistenedEpisodes answers to { first: pageSize, after }
Served(after) ==
    LET from == IF after.t = "number" THEN after.n ELSE 0
        upto == IF from + ListPageSize < Len(Catalogue) THEN from + ListPageSize
                ELSE Len(Catalogue)
    IN [episodes |-> SubSeq(Catalogue, from + 1, upto),
        hasNextPage |-> upto < Len(Catalogue),
        nextCursor |-> IF upto < Len(Catalogue) THEN Num(upto) ELSE Null]

\* the filter of the new episodes against episodeIdsRef, which adds the
\* ids it lets through
RECURSIVE Deduplicate(_, _, _)
Deduplicate(newEpisodes, ids, kept) ==
    IF newEpisodes = <<>> THEN [uniqueNewEpisodes |-> kept, ids |-> ids]
    ELSE IF Head(newEpisodes) \in ids THEN Deduplicate(Tail(newEpisodes), ids, kept)
    ELSE Deduplicate(Tail(newEpisodes), ids \cup {Head(newEpisodes)},
                     Append(kept, Head(newEpisodes)))

\* useState: the state of the first render
InitialListState ==
    [episodes |-> <<>>, loading |-> FALSE, error |-> Null, cursor |-> Null,
     hasNextPage |-> TRUE, hydrated |-> FALSE]

\* loadPage(initial) up to its await, called through a callback that has
\* captured the state closure; prev is the state its setState updates, ref
\* the refs as the caller leaves them
loadPage(initial, closure, prev, ref) ==
    IF closure.loading \/ (~initial /\ ~closure.hasNextPage)
    THEN /\ list' = prev
         /\ refs' = ref
         /\ UNCHANGED fetches
    ELSE /\ Len(fetches) < MaxRequests
         /\ refs' = [ref EXCEPT
                        !.aborted = IF ref.abortController # 0
                                    THEN @ \cup {ref.abortController} ELSE @,
                        !.abortController = Len(fetches) + 1]
         /\ list' = [prev EXCEPT !.loading = TRUE, !.error = Null]
         /\ fetches' = Append(fetches,
               [controller |-> Len(fetches) + 1, initial |-> initial,
                after |-> IF initial THEN Undef ELSE closure.cursor,
                stage |-> "sent", page |-> <<>>])

\* the initial effect: hydrated, and loadPage(true) of the first render;
\* React's strict mode runs it, cleans it up and runs it again
Mount ==
    /\ ~refs.mounted
    /\ refs.mounts < 2
    /\ loadPage(TRUE, InitialListState, [list EXCEPT !.hydrated = TRUE],
                [refs EXCEPT !.mounted = TRUE, !.mounts = @ + 1])
    /\ UNCHANGED <<rendered, pagingVars, listenVars, authVars, extractorVars, pipelineVars,
                   networkVars, cursorVars>>

\* the cleanup of the initial effect: the request under way is aborted
UnmountList ==
    /\ refs.mounted
    /\ refs' = [refs EXCEPT
                   !.mounted = FALSE,
                   !.aborted = IF refs.abortController # 0
                               THEN @ \cup {refs.abortController} ELSE @]
    /\ UNCHANGED <<list, rendered, fetches, pagingVars, listenVars, authVars,
                   extractorVars, pipelineVars, networkVars, cursorVars>>

\* React renders the component: the callbacks now capture the state
Render ==
    /\ refs.mounted
    /\ rendered # list
    /\ rendered' = list
    /\ UNCHANGED <<list, refs, fetches, pagingVars, listenVars, authVars,
                   extractorVars, pipelineVars, networkVars, cursorVars>>

\* the sentinel comes into view, or the Load More button is clicked
LoadMore ==
    /\ refs.mounted
    /\ rendered.hydrated
    /\ rendered.hasNextPage
    /\ ~rendered.loading
    /\ loadPage(FALSE, rendered, list, refs)
    /\ UNCHANGED <<rendered, pagingVars, listenVars, authVars, extractorVars, pipelineVars,
                   networkVars, cursorVars>>

\* handleRetry, of the Retry button shown with an error
Retry ==
    /\ refs.mounted
    /\ rendered.hydrated
    /\ rendered.error # Null
    /\ loadPage(rendered.episodes = <<>>, rendered, list, refs)
    /\ UNCHANGED <<rendered, pagingVars, listenVars, authVars, extractorVars, pipelineVars,
                   networkVars, cursorVars>>

\* loadPage after the aborted check: the response, or the exception caught
Handle(r, outcome) ==
    LET page == Served(fetches[r].after)
        filtered == Deduplicate(page.episodes, refs.episodeIds, <<>>)
    IN /\ fetches' = [fetches EXCEPT ![r].stage = "handled",
                                     ![r].page = IF outcome = "data" THEN page.episodes
                                                 ELSE <<>>]
       /\ IF outcome = "data"
          THEN /\ refs' = [refs EXCEPT !.episodeIds = filtered.ids]
               /\ list' = [list EXCEPT
                              !.episodes = IF fetches[r].initial
                                           THEN filtered.uniqueNewEpisodes
                                           ELSE @ \o filtered.uniqueNewEpisodes,
                              !.cursor = page.nextCursor,
                              !.hasNextPage = page.hasNextPage,
                              !.loading = FALSE]
          ELSE /\ refs' = refs
               /\ list' = [list EXCEPT !.loading = FALSE,
                                       !.error = Str(<<"Failed to load episodes">>)]

\* a plausible bug: the response of an aborted request is used
LoadPageResponse_NoAbortCheck ==
    /\ \E r \in 1..Len(fetches), outcome \in {"data", "error", "throw"} :
          /\ fetches[r].stage = "sent"
          /\ Handle(r, outcome)
    /\ UNCHANGED <<rendered, pagingVars, listenVars, authVars, extractorVars, pipelineVars,
                   networkVars, cursorVars>>

\* loadPage after its await: the request returns data, returns an error or
\* throws
LoadPageResponse ==
    /\ \E r \in 1..Len(fetches), outcome \in {"data", "error", "throw"} :
          /\ fetches[r].stage = "sent"
          /\ IF fetches[r].controller \in refs.aborted
             THEN /\ fetches' = [fetches EXCEPT ![r].stage = "handled"]
                  /\ UNCHANGED <<list, refs>>
             ELSE Handle(r, outcome)
    /\ UNCHANGED <<rendered, pagingVars, listenVars, authVars, extractorVars, pipelineVars,
                   networkVars, cursorVars>>

InitList ==
    /\ list = InitialListState
    /\ rendered = InitialListState
    /\ refs = [abortController |-> 0, episodeIds |-> {}, aborted |-> {},
               mounted |-> FALSE, mounts |-> 0]
    /\ fetches = <<>>
    /\ PagingIdle
    /\ ListenIdle
    /\ AuthIdle
    /\ encLike = Undef
    /\ encResult = Undef
    /\ cursor = Undef
    /\ NetworkIdle
    /\ pc = "idle"
    /\ event = Null
    /\ rawFeed = BlankFeed
    /\ i = 0
    /\ episodes = <<>>
    /\ source = <<>>
    /\ processedAt = <<>>
    /\ clock = T0
    /\ error = Null
    /\ feedMetadata = Null
    /\ store = EmptyStore
    /\ before = EmptyStore

NextList == Mount \/ UnmountList \/ Render \/ LoadMore \/ Retry \/ LoadPageResponse

SpecList == InitList /\ [][NextList]_vars

---------------------------------------------------------------------------
(* The auth callback route.  A URL is a sequence of units: a scheme, a
   host, then the units of the path *)

\* the origin of the application, url.origin of the request
AppOrigin == <<"https://", "app.example">>

\* new URL(input, base), base an origin: an absolute input keeps its own
\* origin, an input that starts with two slashes (a backslash counts as a
\* slash) takes the scheme of the base and its own host, any other input
\* is a path on the base
URL(input, base) ==
    IF Len(input) >= 2 /\ input[1] \in Schemes
    THEN [origin |-> SubSeq(input, 1, 2), pathname |-> SubSeq(input, 3, Len(input)),
          searchParams |-> <<>>]
    ELSE IF Len(input) >= 2 /\ input[1] \in {"//", "/\\", "\\\\"}
    THEN [origin |-> <<base[1], input[2]>>, pathname |-> SubSeq(input, 3, Len(input)),
          searchParams |-> <<>>]
    ELSE [origin |-> base, pathname |-> input, searchParams |-> <<>>]

\* redirect(location): the place the browser goes to, location resolved
\* against the URL of the request
redirect(location) == [t |-> "redirect", location |-> location]

\* redirect("/login?error=...")
LoginRedirect(message) ==
    redirect([origin |-> AppOrigin, pathname |-> <<"/login">>,
              searchParams |-> <<[name |-> "error", value |-> message]>>])

\* the loader of auth.callback: query is the searchParams of the request,
\* authResult the outcome of authenticateWithSingleSignOn and the tokens
\* it left in the stores
loader(query, authResult) ==
    LET redirectTo == Or(query.state, Str(<<"/">>))
        redirectUrl == URL(redirectTo.s, AppOrigin)
    IN IF Truthy(query.error)
       THEN LoginRedirect(Or(query.error_description, Str(<<"Authentication failed">>)))
       ELSE IF ~Truthy(query.code) THEN LoginRedirect(Str(<<"Missing authorization code">>))
       ELSE IF IsThrow(authResult) THEN LoginRedirect(Str(<<"Authentication failed">>))
       ELSE IF authResult.error # Null THEN LoginRedirect(authResult.error)
       ELSE IF Truthy(authResult.accessToken) /\ Truthy(authResult.refreshToken)
       THEN redirect([redirectUrl EXCEPT !.searchParams =
                         <<[name |-> "access_token", value |-> authResult.accessToken],
                           [name |-> "refresh_token", value |-> authResult.refreshToken]>>])
       ELSE redirect(redirectUrl)

\* the values of the state parameter drawn: absent, empty, paths of the
\* application, and URLs of another site in three spellings
States ==
    {Null, Str(<<>>), Str(<<"/">>), Str(<<"/library">>), Str(<<"library">>),
     Str(<<"https://", "app.example", "/library">>),
     Str(<<"https://", "evil.example", "/collect">>),
     Str(<<"//", "evil.example", "/collect">>),
     Str(<<"/\\", "evil.example", "/collect">>)}

\* what the single sign-on answers to the code
AuthResults ==
    {[t |-> "result", error |-> Null, accessToken |-> Str(<<"at">>),
      refreshToken |-> Str(<<"rt">>)],
     [t |-> "result", error |-> Null, accessToken |-> Str(<<"at">>), refreshToken |-> Null],
     [t |-> "result", error |-> Str(<<"invalid_grant">>), accessToken |-> Null,
      refreshToken |-> Null],
     Throw("TypeError", <<"fetch", " failed">>)}

\* the loader answers the request
AuthCallback ==
    /\ callback # Undef
    /\ callback.response = Pending
    /\ callback' = [callback EXCEPT !.response = loader(callback.query, callback.authResult)]
    /\ UNCHANGED <<tokenStore, pagingVars, listenVars, listVars, extractorVars, pipelineVars,
                   networkVars, cursorVars>>

\* the requests the callback route gets
InitCallback ==
    /\ callback \in {[query |-> [code |-> code, error |-> err, error_description |-> Null,
                                 state |-> state],
                      authResult |-> authResult, response |-> Pending] :
                        code \in {Null, Str(<<"c0de">>)}, err \in {Null, Str(<<"access_denied">>)},
                        state \in States, authResult \in AuthResults}
    /\ tokenStore = Undef
    /\ PagingIdle
    /\ ListenIdle
    /\ ListIdle
    /\ encLike = Undef
    /\ encResult = Undef
    /\ cursor = Undef
    /\ NetworkIdle
    /\ pc = "idle"
    /\ event = Null
    /\ rawFeed = BlankFeed
    /\ i = 0
    /\ episodes = <<>>
    /\ source = <<>>
    /\ processedAt = <<>>
    /\ clock = T0
    /\ error = Null
    /\ feedMetadata = Null
    /\ store = EmptyStore
    /\ before = EmptyStore

NextCallback == AuthCallback

SpecCallback == InitCallback /\ [][NextCallback]_vars

---------------------------------------------------------------------------
(* HybridTokenStore.  A cookie string is a sequence of units: a name is one
   unit, "=", ";" and " " are units, a value is a sequence of characters *)

\* s.split(sep)
RECURSIVE splitOn(_, _)
splitOn(s, sep) ==
    IF \E k \in 1..Len(s) : s[k] = sep
    THEN LET k == CHOOSE k \in 1..Len(s) : s[k] = sep /\ \A j \in 1..(k - 1) : s[j] # sep
         IN <<SubSeq(s, 1, k - 1)>> \o splitOn(SubSeq(s, k + 1, Len(s)), sep)
    ELSE <<s>>

\* parts.join(sep)
RECURSIVE join(_, _)
join(parts, sep) ==
    IF parts = <<>> THEN <<>>
    ELSE IF Len(parts) = 1 THEN parts[1]
    ELSE parts[1] \o <<sep>> \o join(Tail(parts), sep)

\* encodeURIComponent: the characters with a meaning in a cookie string
\* are escaped
RECURSIVE encodeURIComponent(_)
encodeURIComponent(s) ==
    IF s = <<>> THEN <<>>
    ELSE (CASE Head(s) = "=" -> <<"%", "3", "D">>
            [] Head(s) = ";" -> <<"%", "3", "B">>
            [] Head(s) = " " -> <<"%", "2", "0">>
            [] Head(s) = "%" -> <<"%", "2", "5">>
            [] OTHER -> <<Head(s)>>) \o encodeURIComponent(Tail(s))

\* decodeURIComponent, of text that encodeURIComponent can give
RECURSIVE decodeURIComponent(_)
decodeURIComponent(s) ==
    IF s = <<>> THEN <<>>
    ELSE IF Head(s) = "%" /\ Len(s) >= 3
    THEN (CASE SubSeq(s, 2, 3) = <<"3", "D">> -> <<"=">>
            [] SubSeq(s, 2, 3) = <<"3", "B">> -> <<";">>
            [] SubSeq(s, 2, 3) = <<"2", "0">> -> <<" ">>
            [] SubSeq(s, 2, 3) = <<"2", "5">> -> <<"%">>
            [] OTHER -> <<"U+FFFD">>) \o decodeURIComponent(SubSeq(s, 4, Len(s)))
    ELSE <<Head(s)>> \o decodeURIComponent(Tail(s))

\* parseCookies: the cookies of a cookie string, in order; a later cookie
\* of the same name replaces an earlier one when looked up
RECURSIVE cookiesOf(_)
cookiesOf(parts) ==
    IF parts = <<>> THEN <<>>
    ELSE LET pieces == splitOn(Head(parts), "=")
         IN (IF Len(pieces[1]) > 0 /\ Len(pieces) > 1
             THEN <<[name |-> trim(pieces[1]),
                     value |-> decodeURIComponent(join(Tail(pieces), "="))]>>
             ELSE <<>>) \o cookiesOf(Tail(parts))

parseCookies(cookieHeader) == cookiesOf(splitOn(cookieHeader, ";"))

\* cookies[key] || null
Lookup(cookies, key) ==
    LET found == {k \in 1..Len(cookies) : cookies[k].name = <<key>>}
        last == CHOOSE k \in found : \A o \in found : o <= k
    IN IF found = {} \/ cookies[last].value = <<>> THEN Null ELSE Str(cookies[last].value)

\* reading document.cookie: name=value of every cookie in the jar
RECURSIVE documentCookie(_)
documentCookie(jar) ==
    IF jar = <<>> THEN <<>>
    ELSE <<jar[1].name, "=">> \o jar[1].value
             \o (IF Len(jar) > 1 THEN <<";", " ">> ELSE <<>>) \o documentCookie(Tail(jar))

\* HybridTokenStore.get()
get(ts) ==
    IF Truthy(ts.memoryStore) THEN ts.memoryStore
    ELSE IF ts.window THEN Lookup(parseCookies(documentCookie(ts.jar)), ts.key)
    ELSE IF ts.request # Undef
    THEN Lookup(parseCookies(Or(ts.request.Cookie, Str(<<>>)).s), ts.key)
    ELSE Null

\* HybridTokenStore.set(token): the store and the cookie jar afterwards
set(ts, token) ==
    LET others == SelectSeq(ts.jar, LAMBDA c : c.name # ts.key)
    IN [ts EXCEPT
           !.memoryStore = token,
           !.jar = IF ~ts.window THEN @
                   ELSE IF token = Null THEN others
                   ELSE Append(others, [name |-> ts.key, value |-> encodeURIComponent(token.s)])]

TokenKey == "keel_access_token"

\* the calls of set of one store are at most MaxSets
MaxSets == 3

\* the tokens drawn
Tokens == {Null, Str(<<>>), Str(<<"n", "e", "w">>), Str(<<"a", "=", ";", "%", "2">>)}

\* the cookie strings of a request: none, one of another name, one with
\* the token of an earlier session
CookieHeaders ==
    {Null, Str(<<"theme", "=", "d">>),
     Str(<<"theme", "=", "d", ";", " ", TokenKey, "=", "o", "l", "d">>)}

\* the stores created by createClient: in the browser, with and without
\* cookies, and on the server, with and without a request
TokenStores ==
    {[key |-> TokenKey, window |-> TRUE, jar |-> jar, request |-> Undef,
      memoryStore |-> Null, sets |-> 0, lastSet |-> Pending, got |-> Pending] :
        jar \in {<<>>, <<[name |-> "theme", value |-> <<"d">>]>>,
                 <<[name |-> TokenKey, value |-> <<"o", "l", "d">>],
                   [name |-> "theme", value |-> <<"d">>]>>}}
    \cup {[key |-> TokenKey, window |-> FALSE, jar |-> <<>>, request |-> request,
           memoryStore |-> Null, sets |-> 0, lastSet |-> Pending, got |-> Pending] :
             request \in {Undef} \cup {[Cookie |-> h] : h \in CookieHeaders}}

\* a call of set
TokenSet ==
    /\ tokenStore # Undef
    /\ tokenStore.sets < MaxSets
    /\ \E token \in Tokens :
          tokenStore' = [set(tokenStore, token) EXCEPT
                            !.sets = @ + 1, !.lastSet = token, !.got = Pending]
    /\ UNCHANGED <<callback, pagingVars, listenVars, listVars, extractorVars, pipelineVars,
                   networkVars, cursorVars>>

\* a call of get
TokenGet ==
    /\ tokenStore # Undef
    /\ tokenStore' = [tokenStore EXCEPT !.got = get(tokenStore)]
    /\ UNCHANGED <<callback, pagingVars, listenVars, listVars, extractorVars, pipelineVars,
                   networkVars, cursorVars>>

InitTokens ==
    /\ tokenStore \in TokenStores
    /\ callback = Undef
    /\ PagingIdle
    /\ ListenIdle
    /\ ListIdle
    /\ encLike = Undef
    /\ encResult = Undef
    /\ cursor = Undef
    /\ NetworkIdle
    /\ pc = "idle"
    /\ event = Null
    /\ rawFeed = BlankFeed
    /\ i = 0
    /\ episodes = <<>>
    /\ source = <<>>
    /\ processedAt = <<>>
    /\ clock = T0
    /\ error = Null
    /\ feedMetadata = Null
    /\ store = EmptyStore
    /\ before = EmptyStore

NextTokens == TokenSet \/ TokenGet

SpecTokens == InitTokens /\ [][NextTokens]_vars

---------------------------------------------------------------------------
(* Properties of the ingestion (Spec) *)

\* the feed items processed so far
Processed == Len(processedAt)

\* what the try block made of feed item k, at the time it ran
Outcome(k) == ProcessItem(rawFeed.items[k], processedAt[k])

\* the three per-item failures: a schema error, no audio URL, an invalid
\* audio URL
SkipKind(r) ==
    /\ IsThrow(r)
    /\ \/ r.name = "ZodError"
       \/ r.message[1] = "No audio URL found"
       \/ r.message[1] = "Invalid audio URL"

\* the URL values written in an enclosure-like value
RECURSIVE UrlsOfShape(_)
UrlsOfShape(v) ==
    IF v.t = "string" THEN {v}
    ELSE IF v.t = "object" THEN {v.f[UrlPaths[k]] : k \in 1..Len(UrlPaths)}
    ELSE IF v.t = "array"
    THEN {u \in UrlValues : \E k \in 1..Len(v.a) : u \in UrlsOfShape(v.a[k])}
    ELSE {}

\* the URL values written anywhere in a feed item
UrlsIn(item) ==
    UrlsOfShape(item.enclosure) \cup UrlsOfShape(item.enclosures)
        \cup UrlsOfShape(item.media_content) \cup UrlsOfShape(item.media_group_content)

\* the episodes of the items 1..n that were not skipped, in item order
RECURSIVE Kept(_)
Kept(n) ==
    IF n = 0 THEN <<>>
    ELSE IF Outcome(n).t = "episode" THEN Append(Kept(n - 1), Outcome(n))
    ELSE Kept(n - 1)

\* C1: every episode fetchEpisodes collects has an audioUrl that is a
\* string, parses as an absolute URL and is a URL written in the feed item
\* it came from (never a placeholder); a feed item in which no absolute URL
\* is written contributes no episode.
C1_AudioUrlAbsolute ==
    /\ \A j \in 1..Len(episodes) :
          /\ IsStr(episodes[j].audioUrl)
          /\ IsAbsoluteUrl(episodes[j].audioUrl.s)
          /\ episodes[j].audioUrl \in UrlsIn(rawFeed.items[source[j]])
    /\ \A k \in 1..Processed :
          (\A u \in UrlsIn(rawFeed.items[k]) : ~IsUrlString(u))
              => \A j \in 1..Len(source) : source[j] # k

\* a feed whose first item has a relative enclosure URL was ingested: only
\* the second item is returned
C1_Witness ==
    /\ pc = "metadata"
    /\ rawFeed.items = <<ItemRelative, ItemMp3>>
    /\ Len(episodes) = 1
    /\ episodes[1].audioUrl = Str(U_mp3)

\* C2: as long as every item processed so far either gave an episode or
\* failed in one of the three per-item ways, fetchEpisodes has raised no
\* error (none is raised before the feed metadata is fetched), has moved on
\* to the next item, and holds exactly the episodes of
\* the items that did not fail, each as its own item alone determines it;
\* with the feed <.html-only item, valid item> the valid item's episode is
\* returned.
C2_FailedItemsSkipped ==
    /\ (\A k \in 1..Processed : Outcome(k).t = "episode" \/ SkipKind(Outcome(k)))
          => /\ episodes = Kept(Processed)
             /\ Processed >= 1 => i = Processed + 1
             /\ feedMetadata = Null => (error = Null /\ pc # "failed")
    /\ (pc = "metadata" /\ rawFeed.items = <<ItemHtml, ItemMp3>>)
          => episodes = <<ProcessItem(ItemMp3, processedAt[2])>>

\* the feed <.html-only item, valid item> was ingested and one episode
\* returned
C2_Witness ==
    /\ pc = "metadata"
    /\ rawFeed.items = <<ItemHtml, ItemMp3>>
    /\ SkipKind(Outcome(1))
    /\ Len(episodes) = 1
    /\ episodes[1].title = ItemMp3.title

\* C3: once the subscriber has ended on a feed with zero items, it has
\* ended with an error and the database is as it was before.
C3_ZeroItemsAbort ==
    (Len(rawFeed.items) = 0 /\ pc \in {"done", "failed"})
        => (pc = "failed" /\ error # Null /\ store = before)

\* C4: a feed item whose processing raised an exception that is not one of
\* the three per-item failures is the last item processed: the subscriber
\* has failed with that exception, no metadata was fetched and the database
\* is as it was before.
C4_UnexpectedErrorAborts ==
    \A k \in 1..Processed :
        (IsThrow(Outcome(k)) /\ ~SkipKind(Outcome(k)))
            => /\ k = Processed
               /\ i = k
               /\ pc = "failed"
               /\ error = Outcome(k)
               /\ feedMetadata = Null
               /\ store = before

\* a TypeError in the first of two items ended the run
C4_Witness ==
    /\ rawFeed.items = <<ItemOddUrl, ItemMp3>>
    /\ pc = "failed"
    /\ error.name = "TypeError"
    /\ Processed = 1

\* C5: when fetchEpisodes has returned, every valid feed item whose
\* enclosure yields no accepted URL but whose media:content, or else
\* media:group content, yields a URL with MP3 evidence has an episode with
\* that URL.
C5_MediaFallback ==
    pc = "metadata" =>
        \A k \in 1..Len(rawFeed.items) :
            LET item == rawFeed.items[k]
                fromMedia == IF Truthy(item.media_content)
                             THEN extractFromEnclosure(item.media_content) ELSE Null
                fromGroup == IF Truthy(item.media_group_content)
                             THEN extractFromEnclosure(item.media_group_content) ELSE Null
                fallback == IF fromMedia # Null THEN fromMedia ELSE fromGroup
            IN (/\ ItemIssue(item) = "none"
                /\ extractFromEnclosure(item.enclosure) = Null
                /\ IsStr(fallback) /\ isMp3Url(fallback.s))
                   => \E j \in 1..Len(episodes) :
                          source[j] = k /\ episodes[j].audioUrl = fallback

---------------------------------------------------------------------------
(* Properties of the extractor (SpecEnclosure) *)

Mp3Marks == {".mp3", "audio/mpeg", "audio/mp3"}
AudioMarks == Mp3Marks \cup {".m4a", ".wav", ".ogg", ".aac", "audio/mp4", "audio/wav",
                             "audio/ogg", "audio/aac"}

\* the lowercased text of v contains one of marks
HasMark(v, marks) == IsStr(v) /\ \E k \in 1..Len(v.s) : LowerUnit(v.s[k]) \in marks

\* the candidate URL of an enclosure
Candidate(e) == getUrlFromEnclosure(e)

\* every candidate URL of the array is text or missing
TextCandidates(a) == \A k \in 1..Len(a) : ~Unreadable(Candidate(a[k]))

\* the orderings of a
Orderings(a) ==
    {[k \in 1..Len(a) |-> a[f[k]]] :
        f \in {g \in [1..Len(a) -> 1..Len(a)] :
                  \A x, y \in 1..Len(a) : x # y => g[x] # g[y]}}

Qualifies(e) ==
    /\ IsStr(Candidate(e))
    /\ Len(Candidate(e).s) > 0
    /\ HasMark(Candidate(e), AudioMarks) \/ isAudioType(e)

C8_LoneEnclosureByUrlOnly ==
    (encResult # Pending /\ encLike.t # "array") =>
        LET url == Candidate(encLike)
            marked == IsStr(url) /\ (HasMark(url, Mp3Marks) \/ HasMark(url, AudioMarks))
        IN /\ marked => encResult = url
           /\ ~marked => encResult \in {Null, TypeError}
           /\ (IsStr(url) /\ Len(url.s) > 0 /\ ~marked /\ isAudioType(encLike))
                 => /\ encResult = Null
                    /\ extractFromEnclosure(Arr(<<encLike>>)) = url

\* a lone enclosure with an audio type and an unmarked URL was rejected
C8_Witness ==
    /\ encLike = EncObj("url", Str(U_plain), "$.type", T_AUDIO)
    /\ encResult = Null

---------------------------------------------------------------------------
(* Properties of the duration (SpecDuration) *)

AllDigits(s) == Len(s) >= 1 /\ \A k \in 1..Len(s) : s[k] \in Digits

\* the positions of the colons of s
Colons(s) == {k \in 1..Len(s) : s[k] = ":"}

\* what the claim says of durationSeconds ds for the duration value read
DurationAsClaimed(read, ds) ==
    /\ (IsStr(read) /\ Cardinality(Colons(read.s)) = 2) =>
          \A p, q \in Colons(read.s) :
              LET h == SubSeq(read.s, 1, p - 1)
                  m == SubSeq(read.s, p + 1, q - 1)
                  sec == SubSeq(read.s, q + 1, Len(read.s))
              IN (p < q /\ AllDigits(h) /\ AllDigits(m) /\ AllDigits(sec))
                    => ds = Num(Decimal(h) * 3600 + Decimal(m) * 60 + Decimal(sec))
    /\ (IsStr(read) /\ Cardinality(Colons(read.s)) = 1) =>
          \A p \in Colons(read.s) :
              LET m == SubSeq(read.s, 1, p - 1)
                  sec == SubSeq(read.s, p + 1, Len(read.s))
              IN (AllDigits(m) /\ AllDigits(sec))
                    => ds = Num(Decimal(m) * 60 + Decimal(sec))
    /\ (IsStr(read) /\ AllDigits(read.s)) => ds = Num(Decimal(read.s))
    /\ read = Str(S_hms) => ds = Num(3723)
    /\ read = Str(S_ms) => ds = Num(123)
    /\ read = Str(S_digits) => ds = Num(2730)

\* C9 (as amended): durationSeconds is h*3600+m*60+s for h:m:s, m*60+s for
\* m:s, the number itself for a non-zero number or a string of digits, of
\* the value read: duration when it is truthy (present, not empty, not 0),
\* itunes:duration otherwise.
C9_DurationArithmetic ==
    pc = "metadata" =>
        LET item == rawFeed.items[1]
            read == IF Truthy(item.duration) THEN item.duration ELSE item.itunes_duration
        IN /\ Len(episodes) = 1
           /\ DurationAsClaimed(read, episodes[1].durationSeconds)
           /\ (read.t = "number" /\ read.n # 0) => episodes[1].durationSeconds = read

\* "01:02:03" was read from duration and gave 3723
C9_Witness ==
    /\ pc = "metadata"
    /\ rawFeed.items[1].duration = Str(S_hms)
    /\ rawFeed.items[1].itunes_duration = Num(45)
    /\ episodes[1].durationSeconds = Num(3723)

\* C9 (as claimed): the same of the value read from duration whenever
\* duration is present, whatever itunes:duration holds.
C9_ReadFromDurationWhenPresent ==
    pc = "metadata" =>
        LET item == rawFeed.items[1]
            read == IF item.duration # Undef THEN item.duration ELSE item.itunes_duration
        IN /\ Len(episodes) = 1
           /\ DurationAsClaimed(read, episodes[1].durationSeconds)
           /\ read.t = "number" => episodes[1].durationSeconds = read
           /\ item.duration # Undef =>
                 episodes[1].durationSeconds
                     = durationSecondsOf([item EXCEPT !.itunes_duration = Undef])

\* C10: the durationSeconds of every returned episode is null or a whole
\* number of seconds, and null for a colon-delimited duration with a
\* non-numeric component or with more than three components; the item is
\* returned all the same.
C10_NullOrWholeSeconds ==
    pc = "metadata" =>
        LET item == rawFeed.items[1]
            read == IF Truthy(item.duration) THEN item.duration ELSE item.itunes_duration
            garbage == /\ IsStr(read)
                       /\ Len(read.s) > 0
                       /\ \A k \in 1..Len(read.s) : read.s[k] \notin Digits \cup {":"}
            oddColons == /\ IsStr(read)
                         /\ Colons(read.s) # {}
                         /\ \/ Cardinality(Colons(read.s)) > 2
                            \/ \E k \in 1..Len(read.s) : read.s[k] \notin Digits \cup {":"}
        IN /\ Len(episodes) = 1
           /\ \/ episodes[1].durationSeconds = Null
              \/ /\ episodes[1].durationSeconds.t = "number"
                 /\ episodes[1].durationSeconds.n \in Nat
           /\ (garbage \/ oddColons) => episodes[1].durationSeconds = Null

---------------------------------------------------------------------------
(* Order of the episodes (Spec) *)

\* C11: the episodes fetchEpisodes holds are in feed item order: each is
\* what the try block made of the feed item it came from, the items they
\* came from are strictly increasing along the list (so no item gives two
\* episodes), and the feed <One, Two> is returned as <One, Two>.
C11_FeedItemOrder ==
    /\ Len(source) = Len(episodes)
    /\ \A j \in 1..Len(episodes) :
          /\ source[j] \in 1..Len(rawFeed.items)
          /\ episodes[j] = Outcome(source[j])
    /\ \A j, k \in 1..Len(episodes) : j < k => source[j] < source[k]
    /\ (pc = "metadata" /\ rawFeed.items = <<ItemMp3, ItemM4a>>)
          => <<episodes[1].title, episodes[2].title>> = <<ItemMp3.title, ItemM4a.title>>

\* a feed of two valid items was returned as two episodes
C11_Witness ==
    /\ pc = "metadata"
    /\ rawFeed.items = <<ItemM4a, ItemMp3>>
    /\ Len(episodes) = 2
    /\ episodes[1].title = ItemM4a.title
    /\ episodes[2].title = ItemMp3.title

---------------------------------------------------------------------------
(* Properties of the ingestion against the network (SpecNetwork) *)

\* the URL is empty, lacks the http:// or https:// scheme, or is longer
\* than 2000 characters
BadUrl(url) ==
    \/ url \in {Undef, Null, Str(<<>>)}
    \/ url.s[1] \notin {"http://", "https://"}
    \/ length(url.s) > 2000

\* the form was submitted to the action
ViaAction == feedUrl # Undef

\* C12: a feed URL that is empty, lacks the http:// or https:// scheme or is
\* longer than 2000 characters is turned down before any request goes out:
\* the action answers with an error and never calls createPodcast, the
\* subscriber makes no request and, for a URL that is not empty, ends with
\* the error of validateRSSFeed; both make the same three checks. A URL
\* with a scheme and of at most 2000 characters, such as one of exactly
\* 2000, is passed on: the action calls createPodcast, validateRSSFeed goes
\* on to the request.
C12_BadUrlRejectedBeforeNetwork ==
    /\ (ViaAction /\ BadUrl(feedUrl) /\ pc # "action")
          => /\ pc = "rejected"
             /\ error.t = "actionData"
             /\ error.error = UrlIssue(feedUrl)
             /\ error.error # <<>>
             /\ requests = <<>>
    /\ (~ViaAction /\ BadUrl(event.rssUrl) /\ pc # "start")
          => /\ requests = <<>>
             /\ UrlIssue(event.rssUrl) # <<>>
             /\ IF Truthy(event.rssUrl)
                THEN pc = "validate" \/ (pc = "failed" /\ error = Throw("Error", UrlIssue(event.rssUrl)))
                ELSE pc = "done" /\ error = Null
    /\ (ViaAction /\ ~BadUrl(feedUrl) /\ pc # "action")
          => pc # "rejected" /\ requests # <<>> /\ requests[1] = "createPodcast"
    /\ (~BadUrl(event.rssUrl) /\ pc \notin {"action", "rejected", "start", "validate", "fetch"})
          => \E k \in 1..Len(requests) : requests[k] = "fetch"
    /\ \A u \in {U_len2000, U_http2000} :
          (feedUrl = Str(u) /\ pc # "action") => event.rssUrl = Str(u)

\* a URL of 2001 characters was turned down by the action
C12_Witness ==
    /\ feedUrl = Str(U_len2001)
    /\ pc = "rejected"
    /\ requests = <<>>

\* the pre-validation request of a good URL has been answered or given up
Fetched ==
    /\ ~BadUrl(event.rssUrl)
    /\ pc \notin {"action", "rejected", "start", "validate", "fetch"}

\* the response arrived in time
Responded == net.fetch.headersMs <= 10000 /\ net.fetch.kind = "response"

\* a successful response arrived and its body was read in time
BodyRead == Responded /\ net.fetch.ok /\ net.fetch.bodyMs <= 10000

Markers == {"<?xml", "<rss", "<feed"}

\* the body contains one of the markers
ContainsMarker(body) == \E k \in 1..Len(body) : body[k] \in Markers

\* the body starts, white space apart, with <?xml, or contains <rss or <feed
StartsWithXmlOrContainsRssFeed(body) ==
    \/ \E k \in 1..Len(body) : body[k] \in {"<rss", "<feed"}
    \/ \E k \in 1..Len(body) :
          body[k] = "<?xml" /\ \A j \in 1..(k - 1) : body[j] \in {" ", "\n"}

\* the body has a <channel> element or a <feed element
HasChannelOrFeed(body) == \E k \in 1..Len(body) : body[k] \in {"<channel>", "<feed"}

\* the requests made for the feed, in order
FeedRequests == SelectSeq(requests, LAMBDA r : r # "createPodcast")

\* validateRSSFeed failed: fetchEpisodes ended there, the parser was not
\* run, no item was processed, no episode returned
ValidationFailed ==
    /\ pc = "failed"
    /\ IsThrow(error)
    /\ FeedRequests = <<"fetch">>
    /\ processedAt = <<>>
    /\ episodes = <<>>
    /\ feedMetadata = Null
    /\ store = before

\* validateRSSFeed passed: the parser is run next
ValidationPassed ==
    \/ pc = "parse" /\ error = Null /\ FeedRequests = <<"fetch">>
    \/ Len(FeedRequests) >= 2 /\ FeedRequests[2] = "parseURL"

\* C13 (as amended): validateRSSFeed fails, the parser is never run and no
\* episode is returned, when the response is not successful, when the body
\* neither starts (white space apart) with <?xml nor contains <rss or <feed,
\* or when the body has neither <channel> nor <feed; a body that starts
\* with <?xml or contains <rss or <feed, and has <channel> or <feed, passes.
C13_MalformedResponseRejected ==
    Fetched =>
        /\ (Responded /\ ~net.fetch.ok) => ValidationFailed
        /\ (BodyRead /\ ~StartsWithXmlOrContainsRssFeed(net.fetch.body)) => ValidationFailed
        /\ (BodyRead /\ ~HasChannelOrFeed(net.fetch.body)) => ValidationFailed
        /\ (/\ BodyRead
            /\ StartsWithXmlOrContainsRssFeed(net.fetch.body)
            /\ HasChannelOrFeed(net.fetch.body)) => ValidationPassed

\* a successful response with a body of plain text was turned down
C13_Witness ==
    /\ Fetched
    /\ BodyRead
    /\ net.fetch.body = <<"text">>
    /\ ValidationFailed
    /\ error.message[1] = "The URL does not appear to contain a valid RSS or Atom feed"

\* C13 (as claimed): the same, a marker being <?xml, <rss or <feed anywhere
\* in the body.
C13_AnyMarkerPasses ==
    Fetched =>
        /\ (Responded /\ ~net.fetch.ok) => ValidationFailed
        /\ (BodyRead /\ ~ContainsMarker(net.fetch.body)) => ValidationFailed
        /\ (BodyRead /\ ~HasChannelOrFeed(net.fetch.body)) => ValidationFailed
        /\ (/\ BodyRead
            /\ ContainsMarker(net.fetch.body)
            /\ HasChannelOrFeed(net.fetch.body)) => ValidationPassed

\* the error messages of a feed that is not a feed or lacks its structure
MalformedMessages ==
    {"The URL does not appear to contain a valid RSS or Atom feed",
     "The RSS feed appears to be malformed",
     "Unable to fetch RSS feed",
     "Unable to connect to the RSS feed URL",
     "Feed not recognized as RSS 1 or 2.",
     "Failed to fetch feed metadata"}

\* the ingestion ended with the given timeout error after the given
\* requests, and nothing was persisted
TimedOut(message, made) ==
    /\ pc = "failed"
    /\ IsThrow(error)
    /\ error.message[1] = message
    /\ error.message[1] \notin MalformedMessages
    /\ error.name # "ZodError"
    /\ FeedRequests = made
    /\ store = before

\* C14: when the response to the pre-validation request (or the body of a
\* successful response) does not arrive within 10 seconds, or a download by
\* the parser does not end within 30 seconds, the ingestion ends with a
\* timeout error that is none of the malformed-feed or schema errors, and
\* nothing after that stage has run: after the request, no parse, no item,
\* no metadata; after the first parse, no item, no metadata; after the
\* second, no write.
C14_TimeoutsEndTheIngestion ==
    /\ (/\ Fetched
        /\ \/ net.fetch.headersMs > 10000
           \/ Responded /\ net.fetch.ok /\ net.fetch.bodyMs > 10000)
          => /\ TimedOut("The RSS feed took too long to respond", <<"fetch">>)
             /\ processedAt = <<>> /\ episodes = <<>> /\ feedMetadata = Null
    /\ (Len(FeedRequests) >= 2 /\ net.parse.ms > 30000)
          => /\ TimedOut("RSS parsing timeout after 30 seconds", <<"fetch", "parseURL">>)
             /\ processedAt = <<>> /\ episodes = <<>> /\ feedMetadata = Null
    /\ (Len(FeedRequests) >= 3 /\ net.metaParse.ms > 30000)
          => /\ TimedOut("RSS parsing timeout after 30 seconds",
                         <<"fetch", "parseURL", "parseURL">>)
             /\ feedMetadata = Null

\* the parser's first download ran out of time
C14_Witness ==
    /\ net.parse.ms > 30000
    /\ net.parse.kind = "feed"
    /\ TimedOut("RSS parsing timeout after 30 seconds", <<"fetch", "parseURL">>)
    /\ Len(rawFeed.items) > 0
    /\ processedAt = <<>>

\* the second download of the parser, made by fetchFeedMetadata, has ended
MetadataFetched == Len(FeedRequests) >= 3

\* the feed has no item, or an item without a title: RSSFeedSchema rejects it
SchemaRejects(feed) ==
    \/ Len(feed.items) = 0
    \/ \E k \in 1..Len(feed.items) : feed.items[k].title = Str(<<>>)

\* C16: when the document the parser returns fails RSSFeedSchema,
\* fetchFeedMetadata returns that document as it is and the ingestion goes
\* on to the transaction; when it passes, the parsed form is returned; the
\* errors that leave fetchFeedMetadata are those of the parser and of the
\* timer, never a schema error.
C16_MetadataDegradesToRaw ==
    /\ (MetadataFetched /\ net.metaParse.ms <= 30000 /\ net.metaParse.kind = "feed")
          => /\ feedMetadata # Null
             /\ pc \in {"transaction", "done", "failed"}
             /\ SchemaRejects(rawFeed) => feedMetadata = rawFeed
             /\ ~SchemaRejects(rawFeed) => FeedIssue(feedMetadata) = "none"
             /\ pc = "failed" => error.message[1] \in {"Failed to fetch feed metadata",
                                                        "query failed"}
    /\ (MetadataFetched /\ ~(net.metaParse.ms <= 30000 /\ net.metaParse.kind = "feed"))
          => /\ pc = "failed"
             /\ feedMetadata = Null
             /\ error.message[1] \in {"RSS parsing timeout after 30 seconds",
                                      "Feed not recognized as RSS 1 or 2."}
    /\ IsThrow(error) => error.name # "ZodError"

\* a feed with no item failed the schema, was returned raw and the run
\* committed
C16_Witness ==
    /\ MetadataFetched
    /\ Len(rawFeed.items) = 0
    /\ feedMetadata = rawFeed
    /\ pc = "done"

---------------------------------------------------------------------------
(* Properties of the ingestion against the database (SpecPersist) *)

\* the iTunes image URLs present in an itunes:image value: the value itself
\* when it is text, its href and its $.href when it is an object
ItunesUrls(im) ==
    IF IsStr(im) THEN {u \in {im} : Len(u.s) > 0}
    ELSE IF im.t = "object"
    THEN {u \in {im.f[q] : q \in {"href", "$.href"}} : IsStr(u) /\ Len(u.s) > 0}
    ELSE {}

\* C15: once the run has committed, the image URL written for the podcast
\* is an iTunes image URL of the feed metadata whenever one is present (as
\* text, as href, or as $.href), the standard image.url when none is and it
\* is present, and none is written when neither is present; with itunes
\* href U_art and image.url U_logo it is U_art.
C15_ItunesImageFirst ==
    pc = "done" =>
        /\ ItunesUrls(feedMetadata.itunes_image) # {}
              => store.podcast.imageUrl \in ItunesUrls(feedMetadata.itunes_image)
        /\ (ItunesUrls(feedMetadata.itunes_image) = {} /\ IsStr(feedMetadata.image_url))
              => store.podcast.imageUrl = feedMetadata.image_url
        /\ (ItunesUrls(feedMetadata.itunes_image) = {} /\ feedMetadata.image_url = Undef)
              => store.podcast.imageUrl = Null
        /\ (/\ rawFeed.itunes_image = ImgObj("href", Str(U_art))
            /\ rawFeed.image_url = Str(U_logo))
              => store.podcast.imageUrl = Str(U_art)

\* a feed with an iTunes href and a standard image was committed with the
\* iTunes one
C15_Witness ==
    /\ pc = "done"
    /\ feedMetadata.itunes_image = ImgObj("href", Str(U_art))
    /\ feedMetadata.image_url = Str(U_logo)
    /\ store.podcast.imageUrl = Str(U_art)

\* the episodes stored for the podcast of the event
StoredEpisodes(st) == SelectSeq(st.episodes, LAMBDA row : row.podcastId = event.id)

\* C17: once the run has committed, no two episodes stored for the podcast
\* have the same link, and an episode of the feed was inserted only if its
\* link was not already stored for the podcast.
C17_NoDuplicateLinks ==
    pc = "done" =>
        /\ \A j, k \in 1..Len(StoredEpisodes(store)) :
              j # k => StoredEpisodes(store)[j].url # StoredEpisodes(store)[k].url
        /\ \A k \in (Len(before.episodes) + 1)..Len(store.episodes) :
              \A j \in 1..Len(StoredEpisodes(before)) :
                  StoredEpisodes(before)[j].url # store.episodes[k].url

\* episode k handed to the transaction is slated for insert: its link is
\* not stored for the podcast
Slated(k) ==
    \A j \in 1..Len(StoredEpisodes(before)) : StoredEpisodes(before)[j].url # episodes[k].url

\* C19: once the run has ended, either it failed and the database is
\* exactly as before the run, or it committed and all of its effects are
\* there: the title of the feed on the podcast row, every fetched episode
\* whose link was not stored, and the creator's subscription. A query the
\* database rejects, the final subscription insert included, leaves nothing
\* behind.
C19_AllOrNothing ==
    /\ pc = "failed" => store = before
    /\ pc \notin {"done", "failed"} => store = before
    /\ (pc = "done" /\ Truthy(event.rssUrl)) =>
          /\ net.db = "none" \/ error = Null
          /\ Truthy(feedMetadata.title) => store.podcast.title = feedMetadata.title
          /\ \A k \in 1..Len(episodes) :
                Slated(k) => \E j \in 1..Len(store.episodes) :
                                 store.episodes[j] = [episodes[k] EXCEPT !.podcastId = event.id]
          /\ IF Truthy(event.createdById)
             THEN store.subscriptions
                      = Append(before.subscriptions,
                               [podcastId |-> event.id, subscriberId |-> event.createdById])
             ELSE store.subscriptions = before.subscriptions
    /\ (net.db = "subscribe" /\ Truthy(event.createdById) /\ pc \in {"done", "failed"})
          => (pc = "failed" /\ store = before)

\* the subscription insert was rejected after the update and the episode
\* insert: the run failed and the database is as before
C19_Witness ==
    /\ net.db = "subscribe"
    /\ pc = "failed"
    /\ error = DbError
    /\ Truthy(feedMetadata.title)
    /\ \E k \in 1..Len(episodes) : Slated(k)
    /\ store = before

---------------------------------------------------------------------------
(* Properties of the transaction (SpecTransaction) *)

---------------------------------------------------------------------------
(* Properties of the cursor (SpecCursor) *)

\* C20: once the cursor made of (publishedAt, id) has been decoded, the
\* result has pAt equal to the epoch milliseconds of publishedAt and the
\* same id; the cursor is a text of base64 digits, four for every three
\* bytes.
C20_CursorRoundTrip ==
    /\ cursor.encoded # Undef =>
          /\ Len(cursor.encoded.a) % 4 = 0
          /\ \A k \in 1..Len(cursor.encoded.a) : cursor.encoded.a[k] \in 0..64
    /\ cursor.decoded # Pending =>
          /\ cursor.decoded # Null
          /\ cursor.decoded.pAt = Num(cursor.publishedAt.time.n)
          /\ cursor.decoded.id = cursor.id

\* a date before 1970 and an id with a quote and a two-byte letter went
\* through
C20_Witness ==
    /\ cursor.publishedAt = Date(-120500)
    /\ cursor.id = Str(<<"\"", "e-acute">>)
    /\ cursor.decoded # Pending
    /\ cursor.decoded.pAt = Num(-120500)
    /\ cursor.decoded.id = Str(<<"\"", "e-acute">>)

---------------------------------------------------------------------------
(* Properties of the pagination (SpecPaging) *)

\* row x comes before row y in (publishedAt, id) order
PairLess(x, y) ==
    \/ x.publishedAt.time.n < y.publishedAt.time.n
    \/ x.publishedAt.time.n = y.publishedAt.time.n /\ StrLess(x.id.s, y.id.s)

Called == listing # Undef /\ listing.inputs # Undef /\ listing.ctx.isAuthenticated

\* C21: when the cursor sent is the cursor of the pair (p, i) of a row,
\* every episode returned has publishedAt < p, or publishedAt = p and
\* id < i; the row at the cursor and the rows at or after it are not
\* returned.
C21_StrictlyBelowCursor ==
    Called =>
        \A r \in library.episode :
            listing.inputs.after = Arr(encodeCursor(r.publishedAt, r.id)) =>
                \A k \in 1..Len(listing.response.episodes) :
                    /\ PairLess(listing.response.episodes[k], r)
                    /\ listing.response.episodes[k] # r

\* the cursor of a7 at 1500 was sent: a and 7, of the same date, came back
C21_Witness ==
    /\ Called
    /\ E_a7 \in library.episode
    /\ listing.inputs.after = Arr(encodeCursor(E_a7.publishedAt, E_a7.id))
    /\ listing.inputs.podcastId = Undef
    /\ listing.response.episodes = <<E_a, E_7>>

\* C22: whatever first is, the page size used is within 1..100, it is 20
\* when first is absent, and the response has no more episodes than the
\* page size.
C22_PageSizeClamped ==
    Called =>
        /\ listing.pageSize.n \in 1..100
        /\ listing.inputs.first = Undef => listing.pageSize.n = 20
        /\ Len(listing.response.episodes) <= listing.pageSize.n

\* a negative first gave a page of one episode, with more to come
C22_Witness ==
    /\ Called
    /\ listing.inputs.first = Num(-3)
    /\ listing.pageSize = Num(1)
    /\ Len(listing.response.episodes) = 1
    /\ listing.response.hasNextPage

\* the episodes returned by the walk so far, in the order returned
RECURSIVE Walked(_)
Walked(k) == IF k = 0 THEN <<>> ELSE Walked(k - 1) \o walk[k].response.episodes

\* C26: in a walk through the pages the episodes returned are matching
\* episodes in descending (publishedAt, id) order, none twice; every
\* response has a nextCursor exactly when hasNextPage, and hasNextPage
\* exactly when matching episodes remain, so that the finished walk has
\* returned every matching episode.
C26_WalkReturnsEachOnce ==
    (Called /\ walk # <<>>) =>
        LET Holds(returned, matching) ==
                /\ \A k \in 1..Len(returned) : returned[k] \in matching
                /\ \A k \in 1..(Len(returned) - 1) : PairLess(returned[k + 1], returned[k])
                /\ \A k \in 1..Len(walk) :
                       /\ walk[k].response.nextCursor # Null <=> walk[k].response.hasNextPage
                       /\ walk[k].response.hasNextPage <=>
                              Len(Walked(k)) < Cardinality(matching)
        IN Holds(Walked(Len(walk)), Matching(library, listing.ctx.identity, walk[1].podcastId))

\* a walk of three pages ended having returned four episodes
C26_Witness ==
    /\ Called
    /\ Len(walk) = 3
    /\ ~walk[3].response.hasNextPage
    /\ Len(Walked(3)) = 4
    /\ Len(walk[1].response.episodes) = 2
    /\ Len(walk[2].response.episodes) = 1

---------------------------------------------------------------------------
(* Properties of the listened-episode record (SpecListen) *)

\* the calls that have written a record and returned it
Written == {k \in 1..Len(upserts) :
               upserts[k].stage \in {"returned", "done"} /\ "data" \in DOMAIN upserts[k].result}

\* C23: the initial load of useListenedEpisode returns the record of the
\* (episode, listener) pair when it read one, leaving the stored
\* secondsListened and listened as they were, and creates a record with
\* secondsListened 0 and listened false only when it read none.
C23_LoadGetsOrCreates ==
    \A k \in Written :
        upserts[k].by = "load" =>
            IF upserts[k].existing # Undef
            THEN /\ upserts[k].result.data.id = upserts[k].existing.id
                 /\ upserts[k].result.data.secondsListened = upserts[k].prior.secondsListened
                 /\ upserts[k].result.data.listened = upserts[k].prior.listened
            ELSE /\ upserts[k].result.data.secondsListened = Num(0)
                 /\ upserts[k].result.data.listened = Bool(FALSE)

\* C24: any two upsert requests issued by updateProgress are at least 5
\* seconds apart, and each was issued for more than 0 seconds, after the
\* record was loaded.
C24_ProgressThrottled ==
    \A j, k \in 1..Len(upserts) :
        (upserts[j].by = "progress" /\ upserts[k].by = "progress") =>
            /\ upserts[k].inputs.secondsListened.n > 0
            /\ hook.listenedEpisode # Null
            /\ j < k => upserts[k].now - upserts[j].now >= ThrottleMs

\* there is at most one record for every (episodeId, listenerId)
OneRecordPerPair ==
    \A j, k \in 1..Len(listenedTable.rows) :
        (/\ listenedTable.rows[j].episodeId = listenedTable.rows[k].episodeId
         /\ listenedTable.rows[j].listenerId = listenedTable.rows[k].listenerId) => j = k

\* an upsert that omits a field leaves its stored value as it was
OmittedFieldsKept ==
    \A k \in Written :
        upserts[k].prior # Undef =>
            /\ upserts[k].inputs.secondsListened = Undef =>
                   upserts[k].result.data.secondsListened = upserts[k].prior.secondsListened
            /\ upserts[k].inputs.listened = Undef =>
                   upserts[k].result.data.listened = upserts[k].prior.listened

\* C27: after any interleaving of UpsertListenedEpisode calls there is at
\* most one record for every (episodeId, listenerId), and an upsert that
\* omits secondsListened or listened leaves the stored value of that field
\* unchanged.
C27_OneRecordAndOmittedKept == OneRecordPerPair /\ OmittedFieldsKept

---------------------------------------------------------------------------
(* Properties of the episode list (SpecList) *)

\* the displayed list has no episode id twice
NoEpisodeTwice ==
    \A j, k \in 1..Len(list.episodes) : list.episodes[j] = list.episodes[k] => j = k

\* a step that handles the response of an aborted request leaves episodes,
\* cursor and hasNextPage as they were
AbortedResponseIgnored ==
    \A r \in 1..Len(fetches) :
        (/\ fetches[r].stage = "sent"
         /\ fetches[r].controller \in refs.aborted
         /\ Len(fetches') >= r
         /\ fetches'[r].stage = "handled") =>
            /\ list'.episodes = list.episodes
            /\ list'.cursor = list.cursor
            /\ list'.hasNextPage = list.hasNextPage

\* C25: under any interleaving of the initial load, load-more triggers,
\* retries, aborts and responses, the displayed list never has two
\* entries with the same episode id, and the response of an aborted
\* request never changes episodes, cursor or hasNextPage.
C25_NoDuplicatesAbortedIgnored == []NoEpisodeTwice /\ [][AbortedResponseIgnored]_vars

\* the whole catalogue is displayed after a page was fetched twice and the
\* response of an aborted request had arrived
C25_Witness ==
    /\ list.episodes = Catalogue
    /\ \E q, r \in 1..Len(fetches) :
          /\ q # r
          /\ fetches[q].page = fetches[r].page
          /\ fetches[q].page # <<>>
    /\ \E r \in 1..Len(fetches) :
          fetches[r].stage = "handled" /\ fetches[r].controller \in refs.aborted

---------------------------------------------------------------------------
(* Properties of the podcast row (SpecPersist) *)

\* the transaction has run
Transacted == feedMetadata # Null /\ pc \in {"done", "failed"}

\* the feed metadata has a title, a description or an image URL
HasMetadata ==
    \/ Truthy(feedMetadata.title)
    \/ Truthy(feedMetadata.description)
    \/ Truthy(extractImageUrl(feedMetadata))

\* the value the feed has for each field of the podcast row
FeedValue(field) ==
    CASE field = "title" -> feedMetadata.title
      [] field = "description" -> feedMetadata.description
      [] field = "imageUrl" -> extractImageUrl(feedMetadata)
      [] field = "url" -> feedMetadata.link
      [] field = "author" -> feedMetadata.author
      [] field = "category" ->
             IF feedMetadata.categories.t = "array" /\ Len(feedMetadata.categories.a) > 0
             THEN feedMetadata.categories.a[1] ELSE Undef

\* C28: when the feed metadata has no title, no description and no image
\* URL the transaction throws and nothing is persisted, whatever episodes
\* were fetched; episodes and the subscription are persisted only when one
\* of the three is there, and then the fields the feed has are written to
\* the podcast row and its other fields stay as stored.
C28_MetadataRequired ==
    Transacted =>
        /\ ~HasMetadata =>
              /\ pc = "failed"
              /\ error = Throw("Error", <<"Failed to fetch feed metadata">>)
              /\ store = before
        /\ store # before => HasMetadata
        /\ pc = "done" =>
              \A field \in DOMAIN store.podcast :
                  store.podcast[field] = IF Truthy(FeedValue(field)) THEN FeedValue(field)
                                         ELSE before.podcast[field]

\* a feed without title, description and image, with an episode fetched:
\* the run failed and nothing was stored
C28_Witness ==
    /\ Transacted
    /\ ~HasMetadata
    /\ Len(episodes) >= 1
    /\ Truthy(event.createdById)
    /\ net.db = "none"
    /\ pc = "failed"
    /\ store = before

---------------------------------------------------------------------------
(* Properties of the sign-on (SpecCallback, SpecTokens) *)

\* the response carries the tokens
CarriesTokens ==
    /\ callback.response # Pending
    /\ \E k \in 1..Len(callback.response.location.searchParams) :
          callback.response.location.searchParams[k].name \in {"access_token", "refresh_token"}

\* C29: whatever the state parameter is, a redirect that carries
\* access_token and refresh_token goes to the application's own origin.
C29_TokensStayOnOrigin ==
    CarriesTokens => callback.response.location.origin = AppOrigin

\* C30: get() returns the value of the most recent set: the token after a
\* set of a token, null after set(null), in the browser and on the server,
\* with and without a cookie of that key in the request.
C30_GetReturnsLastSet ==
    (tokenStore.lastSet # Pending /\ tokenStore.got # Pending) =>
        tokenStore.got = tokenStore.lastSet

====
